---- MODULE Spec2Model ----
(***************************************************************************)
(* The resume pipeline of python_backend/agents/reference_checking_workflow *)
(* (ReferenceCheckingWorkflow), its text extractor (agents/tools/           *)
(* resume_tools) and its question lookup (agents/tools/database_tools).     *)
(*                                                                          *)
(* Strings are sequences of tokens.  A token of a text is "a" (visible      *)
(* text), "c" (text of a table cell), " " or "\n" (whitespace), or one of   *)
(* the extractor's message strings.  A token of an LLM completion is a      *)
(* bracket, "w" (prose), a member list of a JSON object ("mFull", ...), a   *)
(* whole JSON object of a reference array ("oAnn", ...) or "s" (a JSON      *)
(* string scalar); commas and inner whitespace are not represented.         *)
(*                                                                          *)
(* Of main.py: the reference string parser (parse_reference_data), the      *)
(* validation (validate_extracted_data, debug_workflow_test) and the        *)
(* fallback extractor and merge of process_resume; of backend/parser.py:    *)
(* the text extractor.  A reference line and a resume text are sequences    *)
(* of lexemes, each the piece of text its name spells ("Jane",              *)
(* "jane@acme.com", "555-123-4567", ",", " ", ...).                         *)
(*                                                                          *)
(* Further: a run whose fetch or LLM call never answers (SpecLive), two     *)
(* invocations of run_workflow at once (SpecPair), send_reference_requests  *)
(* of main.py, and ReferenceWorkflow of backend/graph.py with its approval  *)
(* gate (SpecGraph).                                                        *)
(***************************************************************************)
EXTENDS Integers, Sequences, FiniteSets, TLC

(* ------------------------------ bounds -------------------------------- *)

\* longest LLM completion, in tokens
MaxContentLen == 4
\* most pages / paragraphs of a document
MaxPages == 2
\* clock readings (half seconds) available to build_vectorstore: 0..MaxTick
MaxTick == 1
\* the lexemes of a reference line given to the parser
MaxLineLen == 3
\* the candidates of a references list given to the validation
MaxRefs == 2
\* the bytes of a file given to the text extractors
MaxBytes == 2
\* the lexemes of a resume given to process_resume
MaxTextLen == 3

(* ------------------------- JSON / Python values ----------------------- *)

Absent == [t |-> "absent", s |-> "", l |-> <<>>]
Null == [t |-> "null", s |-> "", l |-> <<>>]
Str(x) == [t |-> "str", s |-> x, l |-> <<>>]
List(xs) == [t |-> "list", s |-> "", l |-> xs]
Dict(ks) == [t |-> "dict", s |-> "", l |-> ks]
Num(x) == [t |-> "int", s |-> x, l |-> <<>>]

\* Python truthiness of a value (None, "", [], {} and 0 are false)
Truthy(v) ==
  \/ v.t = "str" /\ v.s # ""
  \/ v.t \in {"list", "dict"} /\ v.l # <<>>
  \/ v.t = "int" /\ v.s # "0"

\* len(v): defined for str, list and dict only (TypeError otherwise)
HasLen(v) == v.t \in {"str", "list", "dict"}

\* d.get(k, dflt): the default only when the key is missing; a null stays None
Get(d, k, dflt) == IF d[k].t = "absent" THEN dflt ELSE d[k]

(* ------------------------------ strings ------------------------------- *)

Whitespace == {" ", "\n"}

RECURSIVE LStrip(_)
LStrip(s) ==
  IF s # <<>> /\ Head(s) \in Whitespace THEN LStrip(Tail(s)) ELSE s

RECURSIVE RStrip(_)
RStrip(s) ==
  IF s # <<>> /\ s[Len(s)] \in Whitespace
  THEN RStrip(SubSeq(s, 1, Len(s) - 1))
  ELSE s

\* str.strip()
Strip(s) == LStrip(RStrip(s))

\* str.find(ch): 0-based index of the first occurrence, -1 when absent
Find(s, ch) ==
  IF \E i \in 1..Len(s) : s[i] = ch
  THEN (CHOOSE i \in 1..Len(s) : s[i] = ch /\ \A j \in 1..(i - 1) : s[j] # ch) - 1
  ELSE -1

\* str.rfind(ch): 0-based index of the last occurrence, -1 when absent
RFind(s, ch) ==
  IF \E i \in 1..Len(s) : s[i] = ch
  THEN (CHOOSE i \in 1..Len(s) : s[i] = ch /\ \A j \in (i + 1)..Len(s) : s[j] # ch) - 1
  ELSE -1

\* s[start:end] for 0 <= start < end
Slice(s, start, end) == SubSeq(s, start + 1, end)

\* every sequence over S of length at most n
SeqsUpTo(S, n) == UNION {[1..k -> S] : k \in 0..n}

(* ------------------- text extraction (resume_tools) ------------------- *)

\* the text of one page or paragraph
PageTexts == {<<>>, <<"a">>}

\* the rows of a document's tables: none, or one row holding one cell
TableRows == {<<>>, << << <<"c">> >> >>}

\* what a URL can serve: a readable or corrupt file with its pages
\* (paragraphs, for a DOCX) and its table rows
Documents ==
  [readable : BOOLEAN, segs : SeqsUpTo(PageTexts, MaxPages), rows : TableRows]

\* a URL is <<stem, extension>>, as os.path.splitext splits it
Urls == {<<"https://files/cv", ".pdf">>, <<"https://files/cv", ".docx">>,
         <<"https://files/cv", ".txt">>}

SplitExt(url) == url[2]

\* the outcomes of the temporary-file handling around the parser
IoOutcomes == {"ok", "tmp_fail", "open_fail"}

\* text += segment + "\n" for each page / paragraph, in order
RECURSIVE JoinLines(_)
JoinLines(segs) ==
  IF segs = <<>> THEN <<>>
  ELSE Head(segs) \o <<"\n">> \o JoinLines(Tail(segs))

\* text += cell.text + " " for each cell of a row
RECURSIVE JoinCells(_)
JoinCells(cells) ==
  IF cells = <<>> THEN <<>>
  ELSE Head(cells) \o <<" ">> \o JoinCells(Tail(cells))

\* each row's cells, then "\n"
RECURSIVE JoinRows(_)
JoinRows(rows) ==
  IF rows = <<>> THEN <<>>
  ELSE JoinCells(Head(rows)) \o <<"\n">> \o JoinRows(Tail(rows))

\* _extract_pdf_text: the except branch RETURNS a message string
ExtractPdfText(doc) ==
  IF doc.readable THEN Strip(JoinLines(doc.segs))
  ELSE <<"Error reading PDF: ...">>

\* _extract_docx_text: the except branch RETURNS a message string
ExtractDocxText(doc) ==
  IF doc.readable THEN Strip(JoinLines(doc.segs) \o JoinRows(doc.rows))
  ELSE <<"Error reading DOCX: ...">>

\* create_resume_parser_tool.parse_resume on a file with extension ext
ParseResume(doc, ext, io) ==
  IF io = "open_fail" THEN <<"Error parsing file: ...">>
  ELSE IF ext = ".pdf" THEN ExtractPdfText(doc)
  ELSE IF ext \in {".docx", ".doc"} THEN ExtractDocxText(doc)
  ELSE <<"Unsupported file format">>

\* ResumeParserTool.parse_file_content: never raises
ParseFileContent(doc, url, io) ==
  IF io = "tmp_fail" THEN <<"Error parsing file content: ...">>
  ELSE ParseResume(doc, SplitExt(url), io)

\* the texts the extractor returns when it could not extract
ExtractorMessages ==
  {<<"Error reading PDF: ...">>, <<"Error reading DOCX: ...">>,
   <<"Error parsing file: ...">>, <<"Error parsing file content: ...">>,
   <<"Unsupported file format">>}

(* -------------- text extraction (backend/parser.py, 21-54) ------------ *)

\* the bytes of a file: text, and bytes that are not valid UTF-8
ByteLexemes == {"a", "0xFF"}
ByteStrings == SeqsUpTo(ByteLexemes, MaxBytes)

\* str(file_content, 'utf-8', errors='ignore'): invalid bytes are dropped
Decode(bytes) == SelectSeq(bytes, LAMBDA b : b # "0xFF")

\* the suffixes of the files given to the extractors
Extensions == {".pdf", ".docx", ".doc", ".txt"}

\* ResumeParser.extract_text_from_pdf: the except branch returns ""
ExtractTextFromPdf(doc) ==
  IF doc.readable THEN Strip(JoinLines(doc.segs)) ELSE <<>>

\* ResumeParser.extract_text_from_docx: paragraphs only; the except branch
\* returns ""
ExtractTextFromDocx(doc) ==
  IF doc.readable THEN Strip(JoinLines(doc.segs)) ELSE <<>>

\* ResumeParser.extract_text_from_file
ExtractTextFromFile(doc, bytes, file_extension) ==
  IF file_extension = ".pdf" THEN ExtractTextFromPdf(doc)
  ELSE IF file_extension \in {".docx", ".doc"} THEN ExtractTextFromDocx(doc)
  ELSE Decode(bytes)

(* --------------------------- LLM completions -------------------------- *)

AppFields ==
  {"full_name", "email", "phone", "current_position", "experience_years",
   "key_skills"}

\* the keys an applicant dict can carry in this program
AppKeys == AppFields \cup {"error"}

RefKeys == {"name", "email", "company", "relationship", "years_worked", "context"}

EmptyDict(keys) == [k \in keys |-> Absent]

\* member lists the model can write between the braces of the applicant object
MemberTokens == {"mFull", "mNameOnly", "mNulls"}

MembersOf(tok) ==
  CASE tok = "mFull" ->
         [k \in AppKeys |->
            CASE k = "full_name" -> Str("Jane Doe")
              [] k = "email" -> Str("jane@acme.com")
              [] k = "phone" -> Str("555-123-4567")
              [] k = "current_position" -> Str("Engineer")
              [] k = "experience_years" -> Str("5")
              [] k = "key_skills" -> List(<<"python">>)
              [] OTHER -> Absent]
    [] tok = "mNameOnly" ->
         [k \in AppKeys |-> IF k = "full_name" THEN Str("Jane Doe") ELSE Absent]
    [] tok = "mNulls" ->
         [k \in AppKeys |->
            CASE k = "full_name" -> Str("Unknown")
              [] k = "email" -> Null
              [] k = "phone" -> Str("")
              [] k = "current_position" -> Str("Unknown")
              [] k = "experience_years" -> Null
              [] k = "key_skills" -> Null
              [] OTHER -> Absent]

\* objects the model can write as elements of the reference array
ObjTokens == {"oAnn", "oBob", "oNoName", "oNullName", "oEmptyName"}

ObjOf(tok) ==
  CASE tok = "oAnn" ->
         [k \in RefKeys |->
            CASE k = "name" -> Str("Ann Lee")
              [] k = "email" -> Str("ann@acme.com")
              [] k = "company" -> Str("Acme")
              [] k = "relationship" -> Null
              [] OTHER -> Absent]
    [] tok = "oBob" ->
         [k \in RefKeys |-> IF k = "name" THEN Str("Bob Roy") ELSE Absent]
    [] tok = "oNoName" ->
         [k \in RefKeys |-> IF k = "email" THEN Str("x@acme.com") ELSE Absent]
    [] tok = "oNullName" ->
         [k \in RefKeys |->
            CASE k = "name" -> Null
              [] k = "email" -> Str("y@acme.com")
              [] OTHER -> Absent]
    [] tok = "oEmptyName" ->
         [k \in RefKeys |->
            CASE k = "name" -> Str("")
              [] k = "company" -> Str("Acme")
              [] OTHER -> Absent]

AppTokens == {"{", "}", "w"} \cup MemberTokens
RefTokens == {"[", "]", "w", "s"} \cup ObjTokens

\* what self.llm.invoke does: raise, or return a completion
AppCompletions ==
  {[raised |-> TRUE, content |-> <<>>]} \cup
  {[raised |-> FALSE, content |-> c] : c \in SeqsUpTo(AppTokens, MaxContentLen)}

RefCompletions ==
  {[raised |-> TRUE, content |-> <<>>]} \cup
  {[raised |-> FALSE, content |-> c] : c \in SeqsUpTo(RefTokens, MaxContentLen)}

(* ------------------------------ json.loads ---------------------------- *)

\* dict built from member lists in order: a repeated key keeps the last value
RECURSIVE MergeMembers(_, _)
MergeMembers(toks, acc) ==
  IF toks = <<>> THEN acc
  ELSE LET m == MembersOf(Head(toks)) IN
       MergeMembers(Tail(toks),
                    [k \in AppKeys |-> IF m[k].t = "absent" THEN acc[k] ELSE m[k]])

\* json.loads of a text "{ ... }": an object exactly when only member lists
\* stand between the first and the last token
JsonObjectOk(span) ==
  /\ Len(span) >= 2
  /\ span[1] = "{"
  /\ span[Len(span)] = "}"
  /\ \A i \in 2..(Len(span) - 1) : span[i] \in MemberTokens

JsonObject(span) == MergeMembers(SubSeq(span, 2, Len(span) - 1), EmptyDict(AppKeys))

\* an element of a parsed array: a dict, or anything else (scalar, inner array)
DictItem(tok) == [isdict |-> TRUE, d |-> ObjOf(tok)]
OtherItem == [isdict |-> FALSE, d |-> EmptyDict(RefKeys)]

\* the elements between the outer brackets of an array; ok is FALSE when the
\* text is not JSON (prose, a bracket closing nothing, one left open)
RECURSIVE ScanItems(_, _, _, _)
ScanItems(toks, i, depth, acc) ==
  IF i > Len(toks) THEN [ok |-> depth = 0, items |-> acc]
  ELSE LET c == toks[i] IN
       CASE c = "[" ->
              ScanItems(toks, i + 1, depth + 1,
                        IF depth = 0 THEN Append(acc, OtherItem) ELSE acc)
         [] c = "]" ->
              IF depth = 0 THEN [ok |-> FALSE, items |-> <<>>]
              ELSE ScanItems(toks, i + 1, depth - 1, acc)
         [] c \in ObjTokens ->
              ScanItems(toks, i + 1, depth,
                        IF depth = 0 THEN Append(acc, DictItem(c)) ELSE acc)
         [] c = "s" ->
              ScanItems(toks, i + 1, depth,
                        IF depth = 0 THEN Append(acc, OtherItem) ELSE acc)
         [] OTHER -> [ok |-> FALSE, items |-> <<>>]

\* json.loads of a text "[ ... ]"
JsonArray(span) ==
  IF Len(span) >= 2 /\ span[1] = "[" /\ span[Len(span)] = "]"
  THEN ScanItems(SubSeq(span, 2, Len(span) - 1), 1, 0, <<>>)
  ELSE [ok |-> FALSE, items |-> <<>>]

(* ------------- parsing model output (workflow, lines 270-467) --------- *)

DefaultApplicantInfo ==
  [k \in AppKeys |->
     CASE k = "key_skills" -> List(<<>>)
       [] k = "error" -> Absent
       [] OTHER -> Str("Unknown")]

\* {"error": "Failed to parse applicant information"}
ParseErrorDict ==
  [k \in AppKeys |->
     IF k = "error" THEN Str("Failed to parse applicant information") ELSE Absent]

\* why a completion yields no parsed JSON between open and close, or "ok"
SpanFault(c, open, close) ==
  IF c.raised THEN "llm_raised"
  ELSE LET content == Strip(c.content)
           start_idx == Find(content, open)
           end_idx == RFind(content, close) + 1
       IN IF ~(start_idx >= 0 /\ end_idx > start_idx) THEN "no_span"
          ELSE LET json_str == Slice(content, start_idx, end_idx) IN
               IF open = "{"
               THEN (IF JsonObjectOk(json_str) THEN "ok" ELSE "bad_json")
               ELSE (IF JsonArray(json_str).ok THEN "ok" ELSE "bad_json")

\* _extract_applicant_info_direct, given what llm.invoke did
ExtractApplicantInfoDirect(c) ==
  IF c.raised THEN DefaultApplicantInfo
  ELSE LET content == Strip(c.content)
           start_idx == Find(content, "{")
           end_idx == RFind(content, "}") + 1
       IN IF start_idx >= 0 /\ end_idx > start_idx
          THEN LET json_str == Slice(content, start_idx, end_idx) IN
               IF JsonObjectOk(json_str) THEN JsonObject(json_str)
               ELSE DefaultApplicantInfo
          ELSE DefaultApplicantInfo

\* _parse_applicant_info: only json.JSONDecodeError is caught, and answered
\* with the error dict
ParseApplicantInfo(llm_output) ==
  LET start_idx == Find(llm_output, "{")
      end_idx == RFind(llm_output, "}") + 1
  IN IF start_idx >= 0 /\ end_idx > start_idx
     THEN LET json_str == Slice(llm_output, start_idx, end_idx) IN
          IF JsonObjectOk(json_str) THEN JsonObject(json_str)
          ELSE ParseErrorDict
     ELSE DefaultApplicantInfo

\* the dict appended for a kept reference in _extract_references_direct
DirectReference(d) ==
  [k \in RefKeys |->
     CASE k = "name" -> Get(d, k, Str("Unknown"))
       [] k = "relationship" -> Get(d, k, Str("Professional contact"))
       [] OTHER -> Get(d, k, Str(""))]

\* the dict appended for a kept reference in _parse_references
CleanedReference(d) ==
  [k \in RefKeys |->
     CASE k = "name" -> Get(d, k, Str("Unknown"))
       [] k = "email" -> Get(d, k, Str("Not provided"))
       [] k = "company" -> Get(d, k, Str("Unknown"))
       [] k = "relationship" -> Get(d, k, Str("Professional contact"))
       [] k = "years_worked" -> Get(d, k, Str("Unknown"))
       [] OTHER -> Get(d, k, Str(""))]

\* mutant: the name test is lost and every dict is kept
KeepReference_AnyDict(ref) == ref.isdict

\* isinstance(ref, dict) and ref.get("name")
KeepReference(ref) == ref.isdict /\ Truthy(ref.d["name"])

\* the validation loop of _extract_references_direct
RECURSIVE ValidReferences(_)
ValidReferences(items) ==
  IF items = <<>> THEN <<>>
  ELSE IF KeepReference(Head(items))
       THEN <<DirectReference(Head(items).d)>> \o ValidReferences(Tail(items))
       ELSE ValidReferences(Tail(items))

\* the validation loop of _parse_references
RECURSIVE CleanedRefs(_)
CleanedRefs(items) ==
  IF items = <<>> THEN <<>>
  ELSE IF KeepReference(Head(items))
       THEN <<CleanedReference(Head(items).d)>> \o CleanedRefs(Tail(items))
       ELSE CleanedRefs(Tail(items))

\* _extract_references_direct, given what llm.invoke did.  Without a span the
\* code returns [] when the text speaks of "no references" and raises
\* otherwise; the raise is caught by its own except, which returns [] too.
ExtractReferencesDirect(c) ==
  IF c.raised THEN <<>>
  ELSE LET content == Strip(c.content)
           start_idx == Find(content, "[")
           end_idx == RFind(content, "]") + 1
       IN IF start_idx >= 0 /\ end_idx > start_idx
          THEN LET parsed == JsonArray(Slice(content, start_idx, end_idx)) IN
               IF parsed.ok THEN ValidReferences(parsed.items) ELSE <<>>
          ELSE <<>>

\* _parse_references
ParseReferences(llm_output) ==
  IF llm_output = <<>> \/ Strip(llm_output) = <<>> THEN <<>>
  ELSE LET start_idx == Find(llm_output, "[")
           end_idx == RFind(llm_output, "]") + 1
       IN IF start_idx >= 0 /\ end_idx > start_idx
          THEN LET parsed == JsonArray(Slice(llm_output, start_idx, end_idx)) IN
               IF parsed.ok THEN CleanedRefs(parsed.items) ELSE <<>>
          ELSE <<>>

(* ------------------- question lookup (database_tools) ----------------- *)

Roles == {"Software Engineer", "Marketing Manager", "Team Lead", ""}
Organizations == {"Acme"}

\* the category terms that occur in role.lower()
TermsIn(role) ==
  CASE role = "Software Engineer" -> {"software", "engineer"}
    [] role = "Marketing Manager" -> {"marketing", "manager"}
    [] role = "Team Lead" -> {"lead"}
    [] OTHER -> {}

GenericQuestions(category) ==
  List(<<category \o " question 1", category \o " question 2",
         category \o " question 3", category \o " question 4",
         category \o " question 5">>)

\* mutant: the management terms are tested before the marketing terms
GetGenericQuestions_ManagementFirst(role0) ==
  LET role == IF role0 = "" THEN "default" ELSE role0
      role_lower == TermsIn(role)
  IN IF role_lower \cap {"software", "developer", "engineer", "programmer"} # {}
     THEN GenericQuestions("software")
     ELSE IF role_lower \cap {"manager", "director", "lead", "supervisor"} # {}
     THEN GenericQuestions("management")
     ELSE IF role_lower \cap {"marketing", "brand", "campaign", "digital"} # {}
     THEN GenericQuestions("marketing")
     ELSE GenericQuestions("default")

\* _get_generic_questions
GetGenericQuestions(role0) ==
  LET role == IF role0 = "" THEN "default" ELSE role0
      role_lower == TermsIn(role)
  IN IF role_lower \cap {"software", "developer", "engineer", "programmer"} # {}
     THEN GenericQuestions("software")
     ELSE IF role_lower \cap {"marketing", "brand", "campaign", "digital"} # {}
     THEN GenericQuestions("marketing")
     ELSE IF role_lower \cap {"manager", "director", "lead", "supervisor"} # {}
     THEN GenericQuestions("management")
     ELSE GenericQuestions("default")

\* the 'question' cell of the first matching row: a JSON list column value, a
\* text value, null, or no such key
QuestionCells ==
  {List(<<"q1", "q2">>), Null, Absent,
   Str("[\"q1\", \"q2\"]"), Str("{\"q\": \"q1\"}"), Str("5"), Str("q1, q2")}

\* json.loads on the text cells above; "q1, q2" is not JSON
JsonCellOk(text) == text \in {"[\"q1\", \"q2\"]", "{\"q\": \"q1\"}", "5"}

JsonCell(text) ==
  CASE text = "[\"q1\", \"q2\"]" -> List(<<"q1", "q2">>)
    [] text = "{\"q\": \"q1\"}" -> Dict(<<"q">>)
    [] text = "5" -> Num("5")

\* what the questions table answers: the client or the query raises, no row
\* matches, or a first row with its cell
DbAnswers ==
  {[kind |-> "client_error", cell |-> Absent], [kind |-> "no_rows", cell |-> Absent]}
  \cup {[kind |-> "row", cell |-> c] : c \in QuestionCells}

\* create_question_fetcher_tool.fetch_questions
FetchQuestions(role, db) ==
  LET fallback == GetGenericQuestions(IF role # "" THEN role ELSE "default") IN
  IF db.kind = "client_error" THEN fallback
  ELSE IF db.kind = "row"
       THEN LET questions_data == db.cell IN
            IF questions_data.t = "absent" THEN fallback
            ELSE IF questions_data.t = "list" THEN questions_data
            ELSE IF questions_data.t = "str"
                 THEN (IF JsonCellOk(questions_data.s)
                       THEN JsonCell(questions_data.s)
                       ELSE fallback)
                 ELSE GetGenericQuestions(role)
       ELSE GetGenericQuestions(role)

(* ------------- the reference string parser (main.py, 61-165) ---------- *)

\* A reference line is a sequence of lexemes; each lexeme is the piece of
\* text its name spells.  In a line, two lexemes that are not separators or
\* spaces are never adjacent (see WellSeparated).
EmailLexemes == {"jane@acme.com"}
PhoneLexemes == {"555-123-4567"}
Separators == <<"|", ",", ";", "-">>
SeparatorSet == {Separators[i] : i \in 1..Len(Separators)}
Keywords == {"manager"}
WordLexemes == {"Jane", "Acme", "HP", "B2B", "@@@"} \cup Keywords
Lexemes ==
  WordLexemes \cup EmailLexemes \cup PhoneLexemes \cup SeparatorSet \cup {" "}

\* lexemes holding '@', holding a digit
AtLexemes == {"@@@"} \cup EmailLexemes
DigitLexemes == {"B2B"} \cup PhoneLexemes

\* len() of a lexeme's text
LexLen(x) ==
  CASE x = "jane@acme.com" -> 13
    [] x = "555-123-4567" -> 12
    [] x = "manager" -> 7
    [] x \in {"Jane", "Acme", "John"} -> 4
    [] x = "0412 345 678" -> 12
    [] x = "2020-2022" -> 9
    [] x \in {"B2B", "@@@"} -> 3
    [] x = "HP" -> 2
    [] x = "x*120" -> 120
    [] x = "x*100" -> 100
    [] OTHER -> 1

RECURSIVE TextLen(_)
TextLen(s) == IF s = <<>> THEN 0 ELSE LexLen(Head(s)) + TextLen(Tail(s))

HasAny(s, class) == \E i \in 1..Len(s) : s[i] \in class

\* words made of letters only
LetterWords == {"Jane", "Acme", "HP"} \cup Keywords

\* Lines: no two lexemes run into each other (each word, email or phone has
\* a separator or a space on either side), and no second email follows a '|'
\* directly
WellSeparated(s) ==
  /\ \A i \in 1..(Len(s) - 1) :
        s[i] \in SeparatorSet \cup {" "} \/ s[i + 1] \in SeparatorSet \cup {" "}
  /\ \A j \in 2..Len(s) :
        (s[j] \in EmailLexemes /\ s[j - 1] = "|")
           => \A i \in 1..(j - 1) : s[i] \notin EmailLexemes

\* re.search(phone_pattern, text): the first match, <<>> when there is none
FirstOf(s, class) ==
  IF \E i \in 1..Len(s) : s[i] \in class
  THEN <<s[CHOOSE i \in 1..Len(s) :
            s[i] \in class /\ \A j \in 1..(i - 1) : s[j] \notin class]>>
  ELSE <<>>

\* re.sub(phone_pattern, '', text): every match removed
Without(s, class) == SelectSeq(s, LAMBDA x : x \notin class)

\* email_pattern = \b[A-Za-z0-9._%+-]+@[A-Za-z0-9.-]+\.[A-Z|a-z]{2,}\b
\* the local part takes in the words, phones and '-' that lead up to the
\* email without a gap, from the first of them that starts a word; a '-'
\* in front is taken in as well when the text before it ends a word, as it
\* does after an earlier match (after_match)
EmailStart(s, i, after_match) ==
  LET lo == CHOOSE j \in 1..i :
              /\ \A k \in j..(i - 1) : s[k] \in LetterWords \cup DigitLexemes \cup {"-"}
              /\ j > 1 => s[j - 1] \notin LetterWords \cup DigitLexemes \cup {"-"}
  IN IF lo = 1 /\ after_match THEN lo
     ELSE CHOOSE k \in lo..i : s[k] # "-" /\ \A j \in lo..(k - 1) : s[j] = "-"

\* the last class, [A-Z|a-z], takes in the letter words and '|' that follow
\* without a gap, up to the last place where a word begins or ends
EmailEnd(s, i) ==
  LET hi == CHOOSE j \in i..Len(s) :
              /\ \A k \in (i + 1)..j : s[k] \in LetterWords \cup {"|"}
              /\ j < Len(s) => s[j + 1] \notin LetterWords \cup {"|"}
  IN IF hi < Len(s) /\ s[hi + 1] \in DigitLexemes \cup EmailLexemes /\ s[hi] = "|"
     THEN hi
     ELSE CHOOSE k \in i..hi : s[k] # "|" /\ \A j \in (k + 1)..hi : s[j] = "|"

FirstEmailAt(s) ==
  CHOOSE i \in 1..Len(s) :
     s[i] \in EmailLexemes /\ \A j \in 1..(i - 1) : s[j] \notin EmailLexemes

\* re.search(email_pattern, text).group(), <<>> when there is no match
FirstEmail(s) ==
  IF HasAny(s, EmailLexemes)
  THEN SubSeq(s, EmailStart(s, FirstEmailAt(s), FALSE),
              EmailEnd(s, FirstEmailAt(s)))
  ELSE <<>>

\* re.sub(email_pattern, '', text)
RECURSIVE WithoutEmails(_, _)
WithoutEmails(s, after_match) ==
  IF HasAny(s, EmailLexemes)
  THEN SubSeq(s, 1, EmailStart(s, FirstEmailAt(s), after_match) - 1)
       \o WithoutEmails(SubSeq(s, EmailEnd(s, FirstEmailAt(s)) + 1, Len(s)), TRUE)
  ELSE s

\* text.split(sep): the pieces between the occurrences of sep
RECURSIVE SplitOn(_, _, _)
SplitOn(s, sep, cur) ==
  IF s = <<>> THEN <<cur>>
  ELSE IF Head(s) = sep THEN <<cur>> \o SplitOn(Tail(s), sep, <<>>)
  ELSE SplitOn(Tail(s), sep, Append(cur, Head(s)))

RECURSIVE StripAll(_)
StripAll(ps) ==
  IF ps = <<>> THEN <<>> ELSE <<Strip(Head(ps))>> \o StripAll(Tail(ps))

\* [part.strip() for part in text.split(separator) if part.strip()]
StrippedParts(s, sep) ==
  SelectSeq(StripAll(SplitOn(s, sep, <<>>)), LAMBDA p : p # <<>>)

\* the parts of the loop over ['|', ',', ';', '-']: the first separator
\* present splits, then the loop breaks
SplitParts(s) ==
  IF \E i \in 1..Len(Separators) : \E j \in 1..Len(s) : s[j] = Separators[i]
  THEN LET i == CHOOSE i \in 1..Len(Separators) :
                  /\ \E j \in 1..Len(s) : s[j] = Separators[i]
                  /\ \A k \in 1..(i - 1) : \A j \in 1..Len(s) : s[j] # Separators[k]
       IN StrippedParts(s, Separators[i])
  ELSE <<>>

\* text.split(): the runs between whitespace
WordsOf(s) == SelectSeq(SplitOn(s, " ", <<>>), LAMBDA w : w # <<>>)

\* ' '.join(words)
RECURSIVE JoinWords(_)
JoinWords(ws) ==
  IF ws = <<>> THEN <<>>
  ELSE IF Len(ws) = 1 THEN Head(ws)
  ELSE Head(ws) \o <<" ">> \o JoinWords(Tail(ws))

\* the words of a text without those that hold one of the lexemes
DropWords(s, class) ==
  Strip(JoinWords(SelectSeq(WordsOf(s), LAMBDA w : ~HasAny(w, class))))

\* name and company out of the first part
NameCompany(part) ==
  IF HasAny(part, {","})
  THEN LET k == CHOOSE k \in 1..Len(part) :
                  part[k] = "," /\ \A j \in 1..(k - 1) : part[j] # ","
       IN [name |-> Strip(SubSeq(part, 1, k - 1)),
           company |-> DropWords(Strip(SubSeq(part, k + 1, Len(part))),
                                 AtLexemes \cup DigitLexemes)]
  ELSE [name |-> part, company |-> <<>>]

\* the loop over parts[1:]: relationship and company
RECURSIVE RemainingParts(_, _)
RemainingParts(ps, acc) ==
  IF ps = <<>> THEN acc
  ELSE LET part == Head(ps) IN
       RemainingParts(Tail(ps),
         IF HasAny(part, Keywords)
         THEN [acc EXCEPT !.relationship = Strip(part)]
         ELSE IF acc.company = <<>> /\ TextLen(part) > 2
              THEN [acc EXCEPT !.company = Strip(part)]
              ELSE acc)

UnknownReference == <<"Unknown Reference">>

\* if not name: name = "Unknown Reference"
NameOrSentinel_Keep(name) == name

NameOrSentinel(name) == IF name = <<>> THEN UnknownReference ELSE name

RefRecordKeys == {"name", "email", "phone_number", "company", "relationship"}

\* a word of 120 letters, and its first 100 letters
LongWord == "x*120"
LongWordCut == "x*100"

\* text[:n]; the only lexeme longer than a slice is the long word, which
\* the lines of this model carry in front
RECURSIVE Take(_, _)
Take(s, n) ==
  IF s = <<>> \/ n = 0 THEN <<>>
  ELSE IF Head(s) = LongWord
       THEN (IF n >= 120 THEN <<LongWord>> \o Take(Tail(s), n - 120)
             ELSE <<LongWordCut>>)
       ELSE IF LexLen(Head(s)) <= n
            THEN <<Head(s)>> \o Take(Tail(s), n - LexLen(Head(s)))
            ELSE <<>>

\* the record of the except branch
BestEffortRecord(reference_text) ==
  [name |-> IF reference_text # <<>> THEN Take(reference_text, 100)
            ELSE UnknownReference,
   email |-> <<>>, phone_number |-> <<>>, company |-> <<>>,
   relationship |-> <<>>]

\* where a step of the try block can raise: nowhere, or at the search for the
\* email, for the phone, or at the split
FailPoints == {"none", "search_email", "search_phone", "split"}

\* a reference candidate: a line of text, a structured object, or None
TextCandidate(text) == [kind |-> "str", text |-> text, d |-> EmptyDict(RefKeys)]
DictCandidate(d) == [kind |-> "dict", text |-> <<>>, d |-> d]
NoneCandidate == [kind |-> "none", text |-> <<>>, d |-> EmptyDict(RefKeys)]

\* bool(candidate)
CandidateTruthy(c) ==
  CASE c.kind = "str" -> c.text # <<>>
    [] c.kind = "dict" -> \E k \in RefKeys : c.d[k].t # "absent"
    [] OTHER -> FALSE

Returned(rec) == [raised |-> FALSE, rec |-> rec]
Raised == [raised |-> TRUE, rec |-> BestEffortRecord(<<>>)]

\* parse_reference_data on a line of text
ParseReferenceText(text0, fail) ==
  LET text1 == Strip(text0)
      email == FirstEmail(text1)
      text2 == IF email # <<>> THEN Strip(WithoutEmails(text1, FALSE)) ELSE text1
      phone_number == Strip(FirstOf(text2, PhoneLexemes))
      text3 == IF phone_number # <<>> THEN Strip(Without(text2, PhoneLexemes))
               ELSE text2
      split == SplitParts(text3)
      parts == IF split = <<>> THEN <<text3>> ELSE split
      first == NameCompany(parts[1])
      rest == RemainingParts(Tail(parts),
                             [company |-> first.company, relationship |-> <<>>])
      name == IF HasAny(first.name, AtLexemes)
              THEN DropWords(first.name, AtLexemes) ELSE first.name
  IN CASE fail = "search_email" -> BestEffortRecord(text1)
       [] fail = "search_phone" -> BestEffortRecord(text2)
       [] fail = "split" -> BestEffortRecord(text3)
       [] OTHER ->
            [name |-> NameOrSentinel(name),
             email |-> email, phone_number |-> phone_number,
             company |-> rest.company, relationship |-> rest.relationship]

\* parse_reference_data: a candidate that is not text fails at strip(), and
\* the except branch slices it
ParseReferenceData(c, fail) ==
  IF c.kind = "str" THEN Returned(ParseReferenceText(c.text, fail))
  ELSE IF CandidateTruthy(c) THEN Raised
  ELSE Returned(BestEffortRecord(<<>>))

(* ------------------ validate_extracted_data (main.py, 167-216) -------- *)

\* the lines the parser is given: every well-separated line of up to
\* MaxLineLen lexemes, and the lines of the form name, company, email, phone
NameSegments == {<<"Jane">>, <<"Jane", " ", "Acme">>}
CompanySegments == {<<"Acme">>, <<"HP">>}
RelationshipSegments == {<<"manager">>, <<"Acme", " ", "manager">>}

FormLine(n, c, e, p) ==
  n \o <<",", " ">> \o c \o <<",", " ">> \o <<e>> \o <<",", " ">> \o <<p>>

FormLineWithRelationship(n, c, e, p, r) == FormLine(n, c, e, p) \o <<",", " ">> \o r

FormLines ==
  {FormLine(n, c, e, p) :
     n \in NameSegments, c \in CompanySegments, e \in EmailLexemes, p \in PhoneLexemes}
  \cup {FormLineWithRelationship(n, c, e, p, r) :
          n \in NameSegments, c \in CompanySegments, e \in EmailLexemes,
          p \in PhoneLexemes, r \in RelationshipSegments}

Lines ==
  {s \in SeqsUpTo(Lexemes, MaxLineLen) : WellSeparated(s)} \cup FormLines
  \cup {<<" ", LongWord>>, <<LongWord, " ", "Jane">>}

\* the structured references a run of the workflow stores
StoredReferences == {DirectReference(ObjOf(tok)) : tok \in {"oAnn", "oBob"}}

\* the candidates of a references list
Candidates ==
  {TextCandidate(l) :
     l \in {<<>>, <<" ">>, <<"@@@">>, <<"Jane">>, <<"jane@acme.com">>,
            <<"Jane", " ", "555-123-4567">>,
            FormLine(<<"Jane">>, <<"Acme">>, "jane@acme.com", "555-123-4567")}}
  \cup {NoneCandidate, DictCandidate(EmptyDict(RefKeys))}
  \cup {DictCandidate(d) : d \in StoredReferences}

\* ref.strip() of the loop: a structured object has no strip()
StripRaises(c) == c.kind # "str"

\* if not parsed_ref.get('name') or parsed_ref.get('name') == 'Unknown Reference'
KeepParsed_Any(rec) == TRUE

KeepParsed(rec) == rec.name # <<>> /\ rec.name # UnknownReference

\* the validation loop; fail_at names the line whose parsing fails at the
\* point fail (0: none); the answer is the list, or raised
RECURSIVE ValidationLoop(_, _, _, _, _)
ValidationLoop(references, i, fail_at, fail, valid_references) ==
  IF i > Len(references) THEN [raised |-> FALSE, valid |-> valid_references]
  ELSE LET ref == references[i] IN
       IF ~CandidateTruthy(ref)
       THEN ValidationLoop(references, i + 1, fail_at, fail, valid_references)
       ELSE IF StripRaises(ref) THEN [raised |-> TRUE, valid |-> <<>>]
       ELSE IF Strip(ref.text) = <<>>
       THEN ValidationLoop(references, i + 1, fail_at, fail, valid_references)
       ELSE LET parsed_ref ==
                  ParseReferenceData(ref, IF i = fail_at THEN fail ELSE "none").rec
            IN ValidationLoop(references, i + 1, fail_at, fail,
                 IF KeepParsed(parsed_ref) THEN Append(valid_references, parsed_ref)
                 ELSE valid_references)

\* sum(1 for ref in valid_references if ref.get('email'))
WithEmail(refs) == Cardinality({i \in 1..Len(refs) : refs[i].email # <<>>})

\* sum(1 for ref in valid_references if ref.get('phone_number'))
WithPhone(refs) == Cardinality({i \in 1..Len(refs) : refs[i].phone_number # <<>>})

\* sum(1 for ref in valid_references if ref.get('email') or ref.get('phone_number'))
WithEmailOrPhone(refs) ==
  Cardinality({i \in 1..Len(refs) :
                 refs[i].email # <<>> \/ refs[i].phone_number # <<>>})

\* len(valid) - sum(1 for ref in valid if ref.get('email') or ref.get('phone_number'))
MissingInfo_Sum(valid) ==
  Len(valid) - WithEmail(valid) - WithPhone(valid)

MissingInfo(valid) ==
  Len(valid) - WithEmailOrPhone(valid)

ValidationSummary_Seen(valid, references) ==
  [total_references |-> Len(references),
   with_email |-> WithEmail(valid),
   with_phone |-> WithPhone(valid),
   missing_info |-> MissingInfo(valid)]

\* result['validation_summary']
ValidationSummary(valid, references) ==
  [total_references |-> Len(valid),
   with_email |-> WithEmail(valid),
   with_phone |-> WithPhone(valid),
   missing_info |-> MissingInfo(valid)]

\* what validate_extracted_data answers: it raised, or it returned the error
\* dict, or the result with the two keys added
Validated(valid, summary) ==
  [raised |-> FALSE, error |-> FALSE, validated_references |-> valid,
   validation_summary |-> summary]

NotValidated(raised) ==
  [raised |-> raised, error |-> ~raised, validated_references |-> <<>>,
   validation_summary |-> ValidationSummary(<<>>, <<>>)]

\* validate_extracted_data(result); empty: the result is {} or None
ValidateExtractedData(empty, references, fail_at, fail) ==
  IF empty THEN NotValidated(FALSE)
  ELSE IF references = <<>> THEN Validated(<<>>, ValidationSummary(<<>>, <<>>))
  ELSE LET loop == ValidationLoop(references, 1, fail_at, fail, <<>>) IN
       IF loop.raised THEN NotValidated(TRUE)
       ELSE Validated(loop.valid, ValidationSummary(loop.valid, references))

(* ------------------------------- state -------------------------------- *)

VARIABLES
  state,      \* the WorkflowState of the run
  pc,         \* the node the graph runs next; "return" after END; "done"
  result,     \* what run_workflow returned (meaningful once pc = "done")
  log,        \* the external effects of the run, in order
  outcome,    \* per stage: "pending", "skipped", "ok", or how its work failed
  extraction, \* what the text extractor did: "none", "ok", "failed", "unsupported"
  p_fn,       \* parsing functions called on their own: the function called last
  p_in,       \*   its argument
  p_app,      \*   the applicant dict it returned
  p_refs,     \*   the reference list it returned
  m_fn,       \* functions of main.py called on their own: the function called
  m_in,       \*   its arguments
  m_out,      \*   what it answered
  runs,       \* two invocations of run_workflow: per run its inputs, state,
              \*   node, result and the answers the environment gave it
  now,        \*   the clock they read
  overlapped, \*   whether a run has taken a step while the other was under way
  g_pc,       \* ReferenceWorkflow (backend graph): the node it runs next
  g_state,    \*   its WorkflowState
  g_db        \*   the rows it has written

vars ==
  <<state, pc, result, log, outcome, extraction, p_fn, p_in, p_app, p_refs,
    m_fn, m_in, m_out, runs, now, overlapped, g_pc, g_state, g_db>>
runVars == <<state, pc, result, log, outcome, extraction>>
parseVars == <<p_fn, p_in, p_app, p_refs>>
mainVars == <<m_fn, m_in, m_out>>
pairVars == <<runs, now, overlapped>>
graphVars == <<g_pc, g_state, g_db>>

Stages ==
  <<"download_resume", "parse_resume", "extract_applicant", "extract_references",
    "build_vectorstore", "fetch_questions", "finalize">>

StageSet == {Stages[i] : i \in 1..Len(Stages)}

\* the edges of _build_workflow: each node to the next, finalize to END
NextNode(node) ==
  IF node = "finalize" THEN "return"
  ELSE Stages[(CHOOSE i \in 1..Len(Stages) : Stages[i] = node) + 1]

\* initial_state of run_workflow
InitialState(resume_url, role, organization) ==
  [resume_url |-> resume_url, role |-> role, organization |-> organization,
   resume_text |-> <<>>, applicant_info |-> EmptyDict(AppKeys),
   references |-> <<>>, questions |-> List(<<>>), vectorstore_path |-> <<>>,
   error_message |-> "", status |-> "initialized"]

NoResult ==
  [applicant_info |-> EmptyDict(AppKeys), references |-> <<>>,
   questions |-> List(<<>>), vectorstore_path |-> <<>>, status |-> "none",
   error_message |-> ""]

(* ------------------------------- nodes -------------------------------- *)

FetchOutcomes == {"ok", "connection_error", "http_error"}

\* str(e) of the exception the download node catches
DownloadError(net) ==
  CASE net = "connection_error" -> "Failed to download resume: connection failed"
    [] net = "http_error" -> "Failed to download resume: 404 Client Error"
    [] OTHER -> "Failed to download resume: No text could be extracted from resume"

\* _download_resume_node.  parse_file_content never raises, so the pdfplumber
\* fallback of lines 106-115 is never entered.
DownloadResumeNode(st, net, doc, io) ==
  LET resume_text == ParseFileContent(doc, st.resume_url, io) IN
  IF net = "ok" /\ Strip(resume_text) # <<>>
  THEN [st EXCEPT !.resume_text = resume_text, !.status = "downloaded"]
  ELSE [st EXCEPT !.error_message = DownloadError(net), !.status = "error"]

\* mutant: the node no longer returns early on status = "error"
ParseResumeNode_NoGuard(st, fails) ==
  IF fails
  THEN [st EXCEPT !.error_message = "Failed to parse resume: ...",
                  !.status = "error"]
  ELSE [st EXCEPT !.status = "parsed"]

\* _parse_resume_node; resume_chunks is no key of WorkflowState and is dropped
ParseResumeNode(st, fails) ==
  IF st.status = "error" THEN st
  ELSE IF fails
       THEN [st EXCEPT !.error_message = "Failed to parse resume: ...",
                       !.status = "error"]
       ELSE [st EXCEPT !.status = "parsed"]

\* _extract_applicant_node; exc: an exception inside its try block
ExtractApplicantNode(st, c, exc) ==
  IF st.status = "error" THEN st
  ELSE IF exc
       THEN [st EXCEPT !.applicant_info = DefaultApplicantInfo,
                       !.status = "applicant_extracted"]
       ELSE [st EXCEPT !.applicant_info = ExtractApplicantInfoDirect(c),
                       !.status = "applicant_extracted"]

\* _extract_references_node
ExtractReferencesNode(st, c, exc) ==
  IF st.status = "error" THEN st
  ELSE IF exc
       THEN [st EXCEPT !.references = <<>>, !.status = "references_extracted"]
       ELSE [st EXCEPT !.references = ExtractReferencesDirect(c),
                       !.status = "references_extracted"]

\* datetime.now().strftime('%Y%m%d_%H%M%S') of a clock reading in half seconds
Strftime(tick) == tick \div 2

\* f"./vectorstore/{role}_{organization}_{stamp}"
VectorstorePath(st, tick) ==
  <<"./vectorstore/", st.role, "_", st.organization, "_", Strftime(tick)>>

\* mutant: the node no longer returns early on status = "error"
BuildVectorstoreNode_NoGuard(st, tick, mkdir_ok) ==
  IF mkdir_ok
  THEN [st EXCEPT !.vectorstore_path = VectorstorePath(st, tick),
                  !.status = "vectorstore_built"]
  ELSE [st EXCEPT !.vectorstore_path = <<>>, !.status = "vectorstore_built"]

\* _build_vectorstore_node; mkdir_ok: os.makedirs did not raise
BuildVectorstoreNode(st, tick, mkdir_ok) ==
  IF st.status = "error" THEN st
  ELSE IF mkdir_ok
       THEN [st EXCEPT !.vectorstore_path = VectorstorePath(st, tick),
                       !.status = "vectorstore_built"]
       ELSE [st EXCEPT !.vectorstore_path = <<>>, !.status = "vectorstore_built"]

\* _fetch_questions_node: len(questions) in its print raises for a value
\* without a length, after state["questions"] was set
FetchQuestionsNode(st, db) ==
  IF st.status = "error" THEN st
  ELSE LET questions == FetchQuestions(st.role, db) IN
       IF HasLen(questions)
       THEN [st EXCEPT !.questions = questions, !.status = "questions_fetched"]
       ELSE [st EXCEPT !.questions = List(<<>>), !.status = "questions_fetched"]

\* mutant: the node no longer returns early on status = "error"
FinalizeNode_NoGuard(st, fails) ==
  IF fails
  THEN [st EXCEPT !.error_message = "Failed to finalize: ...",
                  !.status = "error"]
  ELSE [st EXCEPT !.status = "completed"]

\* _finalize_node
FinalizeNode(st, fails) ==
  IF st.status = "error" THEN st
  ELSE IF fails
       THEN [st EXCEPT !.error_message = "Failed to finalize: ...",
                       !.status = "error"]
       ELSE [st EXCEPT !.status = "completed"]

\* the result run_workflow builds from the final state (lines 499-513)
WorkflowResult(final_state) ==
  [applicant_info |-> final_state.applicant_info,
   references |-> IF final_state.references = <<>> THEN <<>>
                  ELSE final_state.references,
   questions |-> final_state.questions,
   vectorstore_path |-> final_state.vectorstore_path,
   status |-> final_state.status,
   error_message |-> final_state.error_message]

\* the result of run_workflow's except branch (lines 515-525)
FailureResult ==
  [applicant_info |-> EmptyDict(AppKeys), references |-> <<>>,
   questions |-> List(<<>>), vectorstore_path |-> <<>>, status |-> "error",
   error_message |-> "Workflow execution failed: ..."]

(* ------------------------------ actions ------------------------------- *)

\* what the extractor did with the fetched bytes
ExtractionOf(doc, url, io) ==
  IF io # "ok" THEN "failed"
  ELSE IF SplitExt(url) \notin {".pdf", ".docx", ".doc"} THEN "unsupported"
  ELSE IF doc.readable THEN "ok"
  ELSE "failed"

\* a node that finds status = "error" returns at once and causes no effect
LogUnlessError(st, lg, effects) == IF st.status = "error" THEN lg ELSE lg \o effects

\* what a parser does with a completion: how it classifies it, what it returns
AppOutcomeOf(c) == <<SpanFault(c, "{", "}"), ExtractApplicantInfoDirect(c)>>
RefOutcomeOf(c) == <<SpanFault(c, "[", "]"), ExtractReferencesDirect(c)>>

\* one completion for every behaviour llm.invoke can draw from the parser
AppCases ==
  {(CHOOSE c \in AppCompletions : AppOutcomeOf(c) = o) :
     o \in {AppOutcomeOf(c) : c \in AppCompletions}}

RefCases ==
  {(CHOOSE c \in RefCompletions : RefOutcomeOf(c) = o) :
     o \in {RefOutcomeOf(c) : c \in RefCompletions}}

StageOutcome(st, label) == IF st.status = "error" THEN "skipped" ELSE label

\* what the lookup of fetch_questions met: its except branch ("lookup_failed":
\* the client or the query raised, the row has no 'question' key, or the cell
\* is no JSON), no matching row, a row whose cell is null, or a cell it returns
LookupOutcome(db) ==
  CASE db.kind = "client_error" -> "lookup_failed"
    [] db.kind = "no_rows" -> "no_row"
    [] db.cell.t = "absent" -> "lookup_failed"
    [] db.cell.t = "str" /\ ~JsonCellOk(db.cell.s) -> "lookup_failed"
    [] db.cell.t = "null" -> "null_cell"
    [] OTHER -> "ok"

DownloadResume ==
  /\ pc = "download_resume"
  /\ \E net \in FetchOutcomes, doc \in Documents, io \in IoOutcomes :
       LET after == DownloadResumeNode(state, net, doc, io) IN
       /\ state' = after
       /\ extraction' =
            IF net = "ok" THEN ExtractionOf(doc, state.resume_url, io) ELSE "none"
       /\ outcome' =
            [outcome EXCEPT !["download_resume"] =
               IF net # "ok" THEN "fetch_failed"
               ELSE IF after.status = "error" THEN "no_text" ELSE "ok"]
  /\ log' = Append(log, "fetch")
  /\ pc' = NextNode(pc)
  /\ UNCHANGED <<result, parseVars, mainVars, pairVars, graphVars>>

ParseResume_ ==
  /\ pc = "parse_resume"
  /\ \E fails \in BOOLEAN :
       /\ state' = ParseResumeNode(state, fails)
       /\ outcome' =
            [outcome EXCEPT !["parse_resume"] =
               StageOutcome(state, IF fails THEN "exception" ELSE "ok")]
  /\ pc' = NextNode(pc)
  /\ UNCHANGED <<result, log, extraction, parseVars, mainVars, pairVars, graphVars>>

ExtractApplicant ==
  /\ pc = "extract_applicant"
  /\ \E c \in AppCases, exc \in BOOLEAN :
       /\ state' = ExtractApplicantNode(state, c, exc)
       /\ outcome' =
            [outcome EXCEPT !["extract_applicant"] =
               StageOutcome(state,
                            IF exc THEN "exception" ELSE SpanFault(c, "{", "}"))]
  /\ log' = LogUnlessError(state, log, <<"llm_applicant">>)
  /\ pc' = NextNode(pc)
  /\ UNCHANGED <<result, extraction, parseVars, mainVars, pairVars, graphVars>>

ExtractReferences ==
  /\ pc = "extract_references"
  /\ \E c \in RefCases, exc \in BOOLEAN :
       /\ state' = ExtractReferencesNode(state, c, exc)
       /\ outcome' =
            [outcome EXCEPT !["extract_references"] =
               StageOutcome(state,
                            IF exc THEN "exception" ELSE SpanFault(c, "[", "]"))]
  /\ log' = LogUnlessError(state, log, <<"llm_references">>)
  /\ pc' = NextNode(pc)
  /\ UNCHANGED <<result, extraction, parseVars, mainVars, pairVars, graphVars>>

BuildVectorstore ==
  /\ pc = "build_vectorstore"
  /\ \E tick \in 0..MaxTick, mkdir_ok \in BOOLEAN :
       /\ state' = BuildVectorstoreNode(state, tick, mkdir_ok)
       /\ outcome' =
            [outcome EXCEPT !["build_vectorstore"] =
               StageOutcome(state, IF mkdir_ok THEN "ok" ELSE "exception")]
       /\ log' = LogUnlessError(state, log,
                                IF mkdir_ok THEN <<"makedirs">> ELSE <<>>)
  /\ pc' = NextNode(pc)
  /\ UNCHANGED <<result, extraction, parseVars, mainVars, pairVars, graphVars>>

FetchQuestions_ ==
  /\ pc = "fetch_questions"
  /\ \E db \in DbAnswers :
       /\ state' = FetchQuestionsNode(state, db)
       /\ outcome' =
            [outcome EXCEPT !["fetch_questions"] =
               StageOutcome(state,
                            IF HasLen(FetchQuestions(state.role, db))
                            THEN LookupOutcome(db) ELSE "exception")]
  /\ log' = LogUnlessError(state, log, <<"lookup">>)
  /\ pc' = NextNode(pc)
  /\ UNCHANGED <<result, extraction, parseVars, mainVars, pairVars, graphVars>>

Finalize ==
  /\ pc = "finalize"
  /\ \E fails \in BOOLEAN :
       /\ state' = FinalizeNode(state, fails)
       /\ outcome' =
            [outcome EXCEPT !["finalize"] =
               StageOutcome(state, IF fails THEN "exception" ELSE "ok")]
  /\ pc' = NextNode(pc)
  /\ UNCHANGED <<result, log, extraction, parseVars, mainVars, pairVars, graphVars>>

\* run_workflow after ainvoke returned
Return ==
  /\ pc = "return"
  /\ result' = WorkflowResult(state)
  /\ pc' = "done"
  /\ UNCHANGED <<state, log, outcome, extraction, parseVars, mainVars, pairVars, graphVars>>

\* an exception inside run_workflow's try block, raised by ainvoke or after it:
\* the except branch answers
EngineFail ==
  /\ pc \in StageSet \cup {"return"}
  /\ result' = FailureResult
  /\ pc' = "done"
  /\ UNCHANGED <<state, log, outcome, extraction, parseVars, mainVars, pairVars, graphVars>>

NoParseCall ==
  /\ p_fn = "none"
  /\ p_in = [raised |-> FALSE, content |-> <<>>]
  /\ p_app = EmptyDict(AppKeys)
  /\ p_refs = <<>>

NoMainCall ==
  /\ m_fn = "none"
  /\ m_in = <<>>
  /\ m_out = <<>>

NoPairRun ==
  /\ runs = <<>>
  /\ now = 0
  /\ overlapped = FALSE

NoGraphRun ==
  /\ g_pc = "none"
  /\ g_state = <<>>
  /\ g_db = <<>>

\* debug_workflow_test: the result of the run goes to validate_extracted_data
DebugWorkflowTest ==
  /\ pc = "done"
  /\ LET references ==
           [i \in 1..Len(result.references) |-> DictCandidate(result.references[i])]
     IN /\ m_in' = [empty |-> FALSE, references |-> references,
                    fail_at |-> 0, fail |-> "none"]
        /\ m_out' = ValidateExtractedData(FALSE, references, 0, "none")
  /\ m_fn' = "debug_workflow_test"
  /\ pc' = "validated"
  /\ UNCHANGED <<state, result, log, outcome, extraction, parseVars, pairVars, graphVars>>

Init ==
  /\ \E u \in Urls, r \in Roles, o \in Organizations : state = InitialState(u, r, o)
  /\ pc = "download_resume"
  /\ result = NoResult
  /\ log = <<>>
  /\ outcome = [s \in StageSet |-> "pending"]
  /\ extraction = "none"
  /\ NoParseCall
  /\ NoMainCall
  /\ NoPairRun
  /\ NoGraphRun

Next ==
  \/ DownloadResume
  \/ ParseResume_
  \/ ExtractApplicant
  \/ ExtractReferences
  \/ BuildVectorstore
  \/ FetchQuestions_
  \/ Finalize
  \/ Return
  \/ EngineFail
  \/ DebugWorkflowTest

Spec == Init /\ [][Next]_vars

(* ------------- a run whose external party never answers --------------- *)

\* requests.get(resume_url) is called without a timeout: when the server
\* never responds, the call never returns and never raises
FetchHangs ==
  /\ pc = "download_resume"
  /\ pc' = "awaiting_fetch"
  /\ UNCHANGED <<state, result, log, outcome, extraction, parseVars, mainVars, pairVars, graphVars>>

\* llm.invoke(prompt) of a ChatGroq built without timeout: when the service
\* never responds, the call never returns and never raises
LlmHangs ==
  /\ pc \in {"extract_applicant", "extract_references"}
  /\ state.status # "error"
  /\ pc' = "awaiting_llm"
  /\ log' = Append(log, IF pc = "extract_applicant" THEN "llm_applicant"
                        ELSE "llm_references")
  /\ UNCHANGED <<state, result, outcome, extraction, parseVars, mainVars, pairVars, graphVars>>

NextLive == Next \/ FetchHangs \/ LlmHangs

\* the event loop runs a run's next step whenever it has one
SpecLive == Init /\ [][NextLive]_vars /\ WF_vars(Next)

(* ---------------- two invocations of run_workflow at once ------------- *)

RunIds == {"a", "b"}

PairRoles == {"Software Engineer", "Team Lead"}

\* a one-page document with text
PairDocuments ==
  {d \in Documents : d.readable /\ d.rows = <<>> /\ d.segs = << <<"a">> >>}

\* what the environment can answer to a stage that runs at clock value tick:
\* the fetch works or fails, the applicant extraction works or raises, the
\* directory is made or not; the other stages get one answer each
PairAnswers(stage, tick) ==
  CASE stage = "download_resume" ->
         [net : {"ok", "connection_error"}, doc : PairDocuments, io : {"ok"}]
    [] stage = "parse_resume" -> [fails : {FALSE}]
    [] stage = "extract_applicant" ->
         [c : {CHOOSE c \in AppCases : SpanFault(c, "{", "}") = "ok"}, exc : BOOLEAN]
    [] stage = "extract_references" ->
         [c : {CHOOSE c \in RefCases : SpanFault(c, "[", "]") = "ok"}, exc : {FALSE}]
    [] stage = "build_vectorstore" -> [tick : {tick}, mkdir_ok : BOOLEAN]
    [] stage = "fetch_questions" -> [db : {d \in DbAnswers : d.kind = "no_rows"}]
    [] stage = "finalize" -> [fails : {FALSE}]

\* the node of a stage, run on a state with the environment's answer
ApplyNode(stage, st, a) ==
  CASE stage = "download_resume" -> DownloadResumeNode(st, a.net, a.doc, a.io)
    [] stage = "parse_resume" -> ParseResumeNode(st, a.fails)
    [] stage = "extract_applicant" -> ExtractApplicantNode(st, a.c, a.exc)
    [] stage = "extract_references" -> ExtractReferencesNode(st, a.c, a.exc)
    [] stage = "build_vectorstore" -> BuildVectorstoreNode(st, a.tick, a.mkdir_ok)
    [] stage = "fetch_questions" -> FetchQuestionsNode(st, a.db)
    [] stage = "finalize" -> FinalizeNode(st, a.fails)

\* run_workflow builds initial_state from its arguments
FreshRun(resume_url, role, organization) ==
  [inputs |-> <<resume_url, role, organization>>,
   state |-> InitialState(resume_url, role, organization),
   pc |-> "download_resume", result |-> NoResult, answers |-> <<>>]

\* mutant: the workflow keeps the state of the run in one attribute, which
\* every run reads and writes
StepRun_SharedState(rs, r, a) ==
  [o \in DOMAIN rs |->
     IF o = r
     THEN [rs[r] EXCEPT !.state = ApplyNode(rs[r].pc, rs[r].state, a),
                        !.answers = Append(@, a), !.pc = NextNode(rs[r].pc)]
     ELSE [rs[o] EXCEPT !.state = ApplyNode(rs[r].pc, rs[r].state, a)]]

\* ainvoke(initial_state): the graph runs the next node of run r on the
\* state of that run
StepRun(rs, r, a) ==
  [rs EXCEPT ![r].state = ApplyNode(rs[r].pc, rs[r].state, a),
             ![r].answers = Append(@, a),
             ![r].pc = NextNode(rs[r].pc)]

UnderWay(run) == run.pc \notin {"download_resume", "done"}

PairStep ==
  /\ \E r \in RunIds :
       /\ runs[r].pc \in StageSet
       /\ \E a \in PairAnswers(runs[r].pc, now) : runs' = StepRun(runs, r, a)
       /\ overlapped' = (overlapped \/ \E o \in RunIds \ {r} : UnderWay(runs[o]))
  /\ UNCHANGED <<now, runVars, parseVars, mainVars, graphVars>>

PairReturn ==
  /\ \E r \in RunIds :
       /\ runs[r].pc = "return"
       /\ runs' = [runs EXCEPT ![r].result = WorkflowResult(runs[r].state),
                               ![r].pc = "done"]
  /\ UNCHANGED <<now, overlapped, runVars, parseVars, mainVars, graphVars>>

\* datetime.now() moves on
Tick ==
  /\ now < MaxTick
  /\ \E r \in RunIds : runs[r].pc # "done"
  /\ now' = now + 1
  /\ UNCHANGED <<runs, overlapped, runVars, parseVars, mainVars, graphVars>>

InitPair ==
  /\ state = InitialState(<<"https://files/cv", ".pdf">>, "", "Acme")
  /\ pc = "none"
  /\ result = NoResult
  /\ log = <<>>
  /\ outcome = [s \in StageSet |-> "pending"]
  /\ extraction = "none"
  /\ NoParseCall
  /\ NoMainCall
  /\ NoGraphRun
  /\ \E role \in [RunIds -> PairRoles] :
       runs = [r \in RunIds |->
                 FreshRun(<<"https://files/cv", IF r = "a" THEN ".pdf" ELSE ".docx">>,
                          role[r], "Acme")]
  /\ now = 0
  /\ overlapped = FALSE

NextPair == PairStep \/ PairReturn \/ Tick

SpecPair == InitPair /\ [][NextPair]_vars

(* ------------- ReferenceWorkflow (backend/graph.py, 27-321) ----------- *)

\* Its nodes run one after the other along unconditional edges; "" stands
\* for a key of the state that is absent or None.
GraphNodes ==
  <<"auth_node", "upload_node", "parse_resume_node", "fetch_questions_node",
    "queue_review_node", "gate_approval_node", "send_reference_requests_node">>

\* the edges of _create_graph
GraphNext(node) ==
  IF node = GraphNodes[Len(GraphNodes)] THEN "END"
  ELSE GraphNodes[(CHOOSE i \in 1..Len(GraphNodes) : GraphNodes[i] = node) + 1]

GraphInitialState ==
  [user_id |-> "", application_id |-> "", resume_path |-> "", parsed |-> "",
   questions |-> <<>>, approval_status |-> "", error |-> "", role_id |-> "",
   organization_id |-> ""]

\* the rows the workflow and an administrator write
GraphInitialDb ==
  [application |-> "", candidate_references |-> 0, review |-> "",
   reference_requests |-> "", emails |-> 0]

AuthNode ==
  /\ g_pc = "auth_node"
  /\ \E current_user \in {"none", "u1", "raises"} :
       g_state' =
         CASE current_user = "raises" ->
                [g_state EXCEPT !.error = "Authentication error: ..."]
           [] current_user = "none" ->
                [g_state EXCEPT !.error = "User not authenticated"]
           [] OTHER -> [g_state EXCEPT !.user_id = current_user]
  /\ g_pc' = GraphNext(g_pc)
  /\ UNCHANGED <<g_db, runVars, parseVars, mainVars, pairVars>>

UploadNode ==
  /\ g_pc = "upload_node"
  /\ \E file_exists \in BOOLEAN, upload_ok \in BOOLEAN, app_ok \in BOOLEAN :
       IF g_state.user_id = ""
       THEN /\ g_state' = [g_state EXCEPT !.error = "No authenticated user"]
            /\ g_db' = g_db
       ELSE IF ~file_exists
       THEN /\ g_state' = [g_state EXCEPT !.error = "Resume file not found: ..."]
            /\ g_db' = g_db
       ELSE IF ~upload_ok
       THEN /\ g_state' = [g_state EXCEPT !.error = "File upload failed: ..."]
            /\ g_db' = g_db
       ELSE IF ~app_ok
       THEN /\ g_state' = [g_state EXCEPT !.resume_path = "resumes/u1/cv.pdf",
                                          !.error = "Application creation failed: ..."]
            /\ g_db' = g_db
       ELSE /\ g_state' = [g_state EXCEPT !.resume_path = "resumes/u1/cv.pdf",
                                          !.application_id = "app1",
                                          !.role_id = "sample-role-id",
                                          !.organization_id = "sample-org-id"]
            /\ g_db' = [g_db EXCEPT !.application = "pending"]
  /\ g_pc' = GraphNext(g_pc)
  /\ UNCHANGED <<runVars, parseVars, mainVars, pairVars>>

\* parse_resume_node of graph.py.  With references and without an
\* application_id, state["application_id"] raises or hands on None
BackendParseResumeNode ==
  /\ g_pc = "parse_resume_node"
  /\ \E download_ok \in BOOLEAN, parse_ok \in BOOLEAN, references \in 0..1,
        save_ok \in BOOLEAN, key_error \in BOOLEAN :
       IF g_state.resume_path = ""
       THEN /\ g_state' = [g_state EXCEPT !.error = "No resume path available"]
            /\ g_db' = g_db
       ELSE IF ~download_ok
       THEN /\ g_state' = [g_state EXCEPT !.error = "Could not download resume file"]
            /\ g_db' = g_db
       ELSE IF ~parse_ok
       THEN /\ g_state' = [g_state EXCEPT !.error = "Resume parsing failed: ..."]
            /\ g_db' = g_db
       ELSE IF references > 0 /\ g_state.application_id = "" /\ key_error
       THEN /\ g_state' = [g_state EXCEPT !.parsed = "references",
                                          !.error = "Parse error: ..."]
            /\ g_db' = g_db
       ELSE /\ g_state' = [g_state EXCEPT !.parsed = IF references > 0 THEN "references"
                                                     ELSE "no references"]
            /\ g_db' = IF references > 0 /\ g_state.application_id # "" /\ save_ok
                       THEN [g_db EXCEPT !.candidate_references = references]
                       ELSE g_db
  /\ g_pc' = GraphNext(g_pc)
  /\ UNCHANGED <<runVars, parseVars, mainVars, pairVars>>

\* fetch_questions_node of graph.py; get_questions answers [] when it fails
BackendFetchQuestionsNode ==
  /\ g_pc = "fetch_questions_node"
  /\ \E questions \in {<<>>, <<"q1">>} :
       g_state' =
         IF g_state.role_id = "" \/ g_state.organization_id = ""
         THEN [g_state EXCEPT !.error = "Missing role_id or organization_id"]
         ELSE [g_state EXCEPT !.questions = questions]
  /\ g_pc' = GraphNext(g_pc)
  /\ UNCHANGED <<g_db, runVars, parseVars, mainVars, pairVars>>

QueueReviewNode ==
  /\ g_pc = "queue_review_node"
  /\ \E review_ok \in BOOLEAN :
       IF g_state.application_id = "" \/ g_state.questions = <<>>
       THEN /\ g_state' = [g_state EXCEPT !.error = "Missing application_id or questions"]
            /\ g_db' = g_db
       ELSE IF ~review_ok
       THEN /\ g_state' = [g_state EXCEPT !.error = "Failed to create question review: ..."]
            /\ g_db' = g_db
       ELSE /\ g_state' = [g_state EXCEPT !.approval_status = "pending"]
            /\ g_db' = [g_db EXCEPT !.review = "pending"]
  /\ g_pc' = GraphNext(g_pc)
  /\ UNCHANGED <<runVars, parseVars, mainVars, pairVars>>

\* approve_question_review (db.py, 143-163), called by an administrator while the
\* workflow runs
ApproveReview ==
  /\ g_pc \in {"gate_approval_node", "send_reference_requests_node"}
  /\ g_db.review = "pending"
  /\ g_db' = [g_db EXCEPT !.review = "approved"]
  /\ UNCHANGED <<g_pc, g_state, runVars, parseVars, mainVars, pairVars>>

\* gate_approval_node; get_question_review answers None when it fails
GateApprovalNode ==
  /\ g_pc = "gate_approval_node"
  /\ \E read_ok \in BOOLEAN :
       g_state' =
         IF g_state.application_id = ""
         THEN [g_state EXCEPT !.error = "Missing application_id"]
         ELSE IF ~read_ok \/ g_db.review = ""
         THEN [g_state EXCEPT !.error = "Question review not found"]
         ELSE IF g_db.review # "approved"
         THEN [g_state EXCEPT !.approval_status = g_db.review,
                              !.error = "Waiting for manual approval"]
         ELSE [g_state EXCEPT !.approval_status = g_db.review]
  /\ g_pc' = GraphNext(g_pc)
  /\ UNCHANGED <<g_db, runVars, parseVars, mainVars, pairVars>>

\* send_reference_requests_node: it tests application_id and questions, and
\* neither error nor approval_status
SendReferenceRequestsNode ==
  /\ g_pc = "send_reference_requests_node"
  /\ \E create_ok \in BOOLEAN, update_ok \in BOOLEAN :
       IF g_state.application_id = "" \/ g_state.questions = <<>>
       THEN /\ g_state' = [g_state EXCEPT !.error = "Missing application_id or questions"]
            /\ g_db' = g_db
       ELSE IF ~create_ok
       THEN /\ g_state' = [g_state EXCEPT !.error = "Failed to create reference requests: ..."]
            /\ g_db' = g_db
       ELSE /\ g_state' = g_state
            /\ g_db' = [g_db EXCEPT !.reference_requests = "queued",
                                    !.emails = g_db.candidate_references,
                                    !.application =
                                       IF update_ok THEN "references_sent" ELSE @]
  /\ g_pc' = GraphNext(g_pc)
  /\ UNCHANGED <<runVars, parseVars, mainVars, pairVars>>

InitGraph ==
  /\ state = InitialState(<<"https://files/cv", ".pdf">>, "", "Acme")
  /\ pc = "none"
  /\ result = NoResult
  /\ log = <<>>
  /\ outcome = [s \in StageSet |-> "pending"]
  /\ extraction = "none"
  /\ NoParseCall
  /\ NoMainCall
  /\ NoPairRun
  /\ g_pc = "auth_node"
  /\ g_state = GraphInitialState
  /\ g_db = GraphInitialDb

NextGraph ==
  \/ AuthNode
  \/ UploadNode
  \/ BackendParseResumeNode
  \/ BackendFetchQuestionsNode
  \/ QueueReviewNode
  \/ ApproveReview
  \/ GateApprovalNode
  \/ SendReferenceRequestsNode

SpecGraph == InitGraph /\ [][NextGraph]_vars

(* ------------- the parsing functions, called on their own ------------- *)

AsCompletion(text) == [raised |-> FALSE, content |-> text]

CallExtractApplicantInfoDirect ==
  /\ p_fn = "none"
  /\ \E c \in AppCompletions :
       /\ p_in' = c
       /\ p_app' = ExtractApplicantInfoDirect(c)
  /\ p_fn' = "_extract_applicant_info_direct"
  /\ UNCHANGED <<p_refs, runVars, mainVars, pairVars, graphVars>>

CallParseApplicantInfo ==
  /\ p_fn = "none"
  /\ \E text \in SeqsUpTo(AppTokens, MaxContentLen) :
       /\ p_in' = AsCompletion(text)
       /\ p_app' = ParseApplicantInfo(text)
  /\ p_fn' = "_parse_applicant_info"
  /\ UNCHANGED <<p_refs, runVars, mainVars, pairVars, graphVars>>

CallExtractReferencesDirect ==
  /\ p_fn = "none"
  /\ \E c \in RefCompletions :
       /\ p_in' = c
       /\ p_refs' = ExtractReferencesDirect(c)
  /\ p_fn' = "_extract_references_direct"
  /\ UNCHANGED <<p_app, runVars, mainVars, pairVars, graphVars>>

CallParseReferences ==
  /\ p_fn = "none"
  /\ \E text \in SeqsUpTo(RefTokens, MaxContentLen) :
       /\ p_in' = AsCompletion(text)
       /\ p_refs' = ParseReferences(text)
  /\ p_fn' = "_parse_references"
  /\ UNCHANGED <<p_app, runVars, mainVars, pairVars, graphVars>>

InitParse ==
  /\ state = InitialState(<<"https://files/cv", ".pdf">>, "", "Acme")
  /\ pc = "none"
  /\ result = NoResult
  /\ log = <<>>
  /\ outcome = [s \in StageSet |-> "pending"]
  /\ extraction = "none"
  /\ NoParseCall
  /\ NoMainCall
  /\ NoPairRun
  /\ NoGraphRun

NextParse ==
  \/ CallExtractApplicantInfoDirect
  \/ CallParseApplicantInfo
  \/ CallExtractReferencesDirect
  \/ CallParseReferences

SpecParse == InitParse /\ [][NextParse]_vars

(* --------- the fallback extractor of process_resume (main.py, 282-298) - *)

\* A resume text is a sequence of lexemes: a capitalised word, a lower-case
\* word, an email, a phone number, a range of years, blanks and newlines.
\* Two lexemes that are not whitespace are never adjacent.
CapWords == {"John"}
ResumeEmails == {"jane@acme.com"}
ResumePhones == {"0412 345 678"}
YearRanges == {"2020-2022"}
ResumeLexemes ==
  CapWords \cup ResumeEmails \cup ResumePhones \cup YearRanges \cup {"a", " ", "\n"}

SpacedOut(text) ==
  \A i \in 1..(Len(text) - 1) : text[i] \in Whitespace \/ text[i + 1] \in Whitespace

\* pattern.search(text).group(0) for a pattern matching whole lexemes
SearchLexeme(text, class) ==
  IF \E i \in 1..Len(text) : text[i] \in class
  THEN <<text[CHOOSE i \in 1..Len(text) :
               text[i] \in class /\ \A j \in 1..(i - 1) : text[j] \notin class]>>
  ELSE <<>>

\* the end of the run of whitespace that starts at i (i - 1 when there is none)
RECURSIVE SkipWhitespace(_, _)
SkipWhitespace(text, i) ==
  IF i <= Len(text) /\ text[i] \in Whitespace THEN SkipWhitespace(text, i + 1)
  ELSE i - 1

\* a capitalised word after at least one whitespace after position i: its
\* position, 0 when there is none
NextCapWord(text, i) ==
  LET j == SkipWhitespace(text, i + 1) + 1 IN
  IF j > i + 1 /\ j <= Len(text) /\ text[j] \in CapWords THEN j ELSE 0

\* name_pattern matched at position i: the position of the last word of the
\* match, 0 when it does not match there.  ^ needs the start of a line, the
\* pattern two or three capitalised words, three if there are three
NameMatchEnd(text, i) ==
  IF /\ text[i] \in CapWords
     /\ (i = 1 \/ text[i - 1] = "\n")
     /\ NextCapWord(text, i) # 0
  THEN LET second == NextCapWord(text, i)
           third == NextCapWord(text, second)
       IN IF third # 0 THEN third ELSE second
  ELSE 0

\* name_pattern.search(text).group(0).strip(), <<>> when there is no match
SearchName(text) ==
  IF \E i \in 1..Len(text) : NameMatchEnd(text, i) # 0
  THEN LET i == CHOOSE i \in 1..Len(text) :
                  /\ NameMatchEnd(text, i) # 0
                  /\ \A j \in 1..(i - 1) : NameMatchEnd(text, j) = 0
       IN SubSeq(text, i, NameMatchEnd(text, i))
  ELSE <<>>

\* mutant: a phone pattern that lets a hyphen join its groups of digits
SearchPhone_Digits(text) == SearchLexeme(text, ResumePhones \cup YearRanges)

\* phone_pattern.search(text).group(0): the groups of digits of the pattern
\* are joined by whitespace only, so a range of years is no match
SearchPhone(text) == SearchLexeme(text, ResumePhones)

\* fallback_data of process_resume
FallbackData(text) ==
  [name |-> SearchName(Take(text, 500)),
   email |-> SearchLexeme(text, ResumeEmails),
   phone |-> SearchPhone(text)]

(* ------------------- process_resume (main.py, 222-358) ---------------- *)

\* the bytes of a resume: its lexemes, and bytes that are not valid UTF-8
ResumeBytes ==
  {b \in SeqsUpTo(ResumeLexemes \cup {"0xFF"}, MaxTextLen) : SpacedOut(Decode(b))}

\* the files behind resume_url: one page or paragraph, no tables
ResumeDocs == {d \in Documents : d.rows = <<>> /\ Len(d.segs) = 1}

\* a text of lexemes as a Python value
Text(lexemes) == [t |-> "text", s |-> "", l |-> lexemes]

\* bool(value)
NonEmpty(v) == IF v.t = "text" THEN v.l # <<>> ELSE Truthy(v)

\* the applicant dicts run_workflow can return
FullInfo == MembersOf("mFull")

ResultWith(applicant_info, references) ==
  [applicant_info |-> applicant_info, references |-> references,
   questions |-> List(<<>>), vectorstore_path |-> <<>>, status |-> "completed",
   error_message |-> ""]

\* ai_result: what run_workflow returned, or {} when the call raised
AiResults ==
  {<<>>, FailureResult,
   ResultWith(DefaultApplicantInfo, <<>>),
   ResultWith(FullInfo, <<>>),
   ResultWith(FullInfo, <<DirectReference(ObjOf("oAnn"))>>),
   ResultWith([FullInfo EXCEPT !["full_name"] = Str("")], <<>>),
   ResultWith([DefaultApplicantInfo EXCEPT !["email"] = Str("jane@acme.com")], <<>>)}

\* the key of applicant_info that holds an identity field
ApplicantKey(key) == IF key = "name" THEN "full_name" ELSE key

\* a reading of the identity field out of applicant_info
AiGet_Applicant(ai_result, key) ==
  IF "applicant_info" \in DOMAIN ai_result
  THEN ai_result["applicant_info"][ApplicantKey(key)]
  ELSE Null

\* ai_result.get(key)
AiGet(ai_result, key) ==
  IF key \in DOMAIN ai_result THEN ai_result[key] ELSE Null

\* ai_result.get(key) or fallback_data[key]
Merge(ai_result, fallback_data, key) ==
  IF Truthy(AiGet(ai_result, key)) THEN AiGet(ai_result, key)
  ELSE Text(fallback_data[key])

\* step 3: the text for the fallback extractor
FallbackText(doc, bytes, ext) ==
  IF ext = ".docx"
  THEN (IF doc.readable THEN JoinLines(doc.segs) ELSE Decode(bytes))
  ELSE IF ext = ".pdf"
  THEN (IF doc.readable
        THEN JoinLines(SelectSeq(doc.segs, LAMBDA page_text : page_text # <<>>))
        ELSE Decode(bytes))
  ELSE Decode(bytes)

\* extracted_data['final']
FinalData(ai_result, fallback_data) ==
  [name |-> Merge(ai_result, fallback_data, "name"),
   email |-> Merge(ai_result, fallback_data, "email"),
   phone |-> Merge(ai_result, fallback_data, "phone"),
   references |-> IF "references" \in DOMAIN ai_result
                  THEN ai_result["references"] ELSE <<>>]

\* step 6
HasMeaningfulData(final) ==
  \/ \E key \in {"name", "email", "phone"} :
        NonEmpty(final[key]) /\ final[key] # Str("Unknown")
  \/ final.references # <<>>

\* the HTTPException the except branch raises
Http500 ==
  [raised |-> TRUE, status |-> "500", ai_used |-> FALSE,
   fallback |-> FallbackData(<<>>), final |-> FinalData(<<>>, FallbackData(<<>>))]

\* process_resume
ProcessResume(ai_result, http_ok, doc, bytes, ext, db_ok) ==
  LET text == FallbackText(doc, bytes, ext)
      fallback_data == FallbackData(text)
      final == FinalData(ai_result, fallback_data)
  IN IF ~http_ok \/ Strip(text) = <<>> \/ ~db_ok THEN Http500
     ELSE [raised |-> FALSE,
           status |-> IF HasMeaningfulData(final) THEN "extracted" ELSE "processing",
           ai_used |-> ai_result # <<>>,
           fallback |-> fallback_data, final |-> final]

(* -------------- the functions of main.py, called on their own --------- *)

CallParseReferenceData ==
  /\ m_fn = "none"
  /\ \E c \in {TextCandidate(l) : l \in Lines} \cup Candidates, fail \in FailPoints :
       /\ m_in' = [c |-> c, fail |-> fail]
       /\ m_out' = ParseReferenceData(c, fail)
  /\ m_fn' = "parse_reference_data"
  /\ UNCHANGED <<runVars, parseVars, pairVars, graphVars>>

CallValidateExtractedData ==
  /\ m_fn = "none"
  /\ \E empty \in BOOLEAN, references \in SeqsUpTo(Candidates, MaxRefs),
        fail_at \in 0..MaxRefs, fail \in FailPoints :
       /\ empty => references = <<>>
       /\ (fail_at = 0) = (fail = "none")
       /\ fail_at <= Len(references)
       /\ m_in' = [empty |-> empty, references |-> references,
                   fail_at |-> fail_at, fail |-> fail]
       /\ m_out' = ValidateExtractedData(empty, references, fail_at, fail)
  /\ m_fn' = "validate_extracted_data"
  /\ UNCHANGED <<runVars, parseVars, pairVars, graphVars>>

\* ResumeParserTool.parse_file_content, the extractor of the workflow
CallParseFileContent ==
  /\ m_fn = "none"
  /\ \E doc \in Documents, bytes \in ByteStrings, ext \in Extensions,
        io \in IoOutcomes :
       /\ m_in' = [doc |-> doc, bytes |-> bytes, ext |-> ext, io |-> io]
       /\ m_out' = ParseFileContent(doc, <<"https://files/cv", ext>>, io)
  /\ m_fn' = "parse_file_content"
  /\ UNCHANGED <<runVars, parseVars, pairVars, graphVars>>

\* ResumeParser.extract_text_from_file, the extractor of the backend
CallExtractTextFromFile ==
  /\ m_fn = "none"
  /\ \E doc \in Documents, bytes \in ByteStrings, ext \in Extensions :
       /\ m_in' = [doc |-> doc, bytes |-> bytes, ext |-> ext, io |-> "ok"]
       /\ m_out' = ExtractTextFromFile(doc, bytes, ext)
  /\ m_fn' = "extract_text_from_file"
  /\ UNCHANGED <<runVars, parseVars, pairVars, graphVars>>

CallProcessResume ==
  /\ m_fn = "none"
  /\ \E ai_result \in AiResults, http_ok \in BOOLEAN, doc \in ResumeDocs,
        bytes \in ResumeBytes, url \in Urls, db_ok \in BOOLEAN :
       /\ m_in' = [ai_result |-> ai_result, http_ok |-> http_ok, doc |-> doc,
                   bytes |-> bytes, ext |-> SplitExt(url), db_ok |-> db_ok]
       /\ m_out' = ProcessResume(ai_result, http_ok, doc, bytes, SplitExt(url), db_ok)
  /\ m_fn' = "process_resume"
  /\ UNCHANGED <<runVars, parseVars, pairVars, graphVars>>

InitMain == InitParse

(* ------------- send_reference_requests (main.py, 361-456) ------------- *)

\* the references of a request: dicts, with or without an email
SubmittedReferences ==
  {[name |-> "Ann", email |-> "ann@acme.com"], [name |-> "Bob", email |-> ""]}

\* what the environment answers for the i-th reference: send_reference_request
\* returns True or False (it catches its own exceptions), and the insert into
\* reference_requests succeeds or raises
MailAnswers == [1..MaxRefs -> {"sent", "refused"}]
InsertAnswers == [1..MaxRefs -> {"ok", "raises"}]

\* the loop over request.references from its i-th element on.  delivered
\* holds the references whose email went out, records the rows inserted
RECURSIVE SendLoop(_, _, _, _, _)
SendLoop(references, mail, insert, i, acc) ==
  IF i > Len(references) THEN acc
  ELSE IF references[i].email = ""
  THEN SendLoop(references, mail, insert, i + 1, acc)
  ELSE IF mail[i] = "sent"
  THEN LET sent == [acc EXCEPT !.delivered = @ \cup {i},
                               !.sent_emails = Append(@, i)]
       IN IF insert[i] = "ok"
          THEN SendLoop(references, mail, insert, i + 1,
                        [sent EXCEPT !.records =
                           Append(@, [ref |-> i,
                                      reference_email |-> references[i].email,
                                      status |-> "sent"])])
          ELSE [sent EXCEPT !.raised = TRUE]
  ELSE SendLoop(references, mail, insert, i + 1,
                [acc EXCEPT !.failed_emails = Append(@, i)])

\* send_reference_requests: the application is looked up (not found: 404,
\* which the except branch turns into 500), the loop runs, the application's
\* status is updated, and the counters are returned
SendReferenceRequests(app_found, references, mail, insert, update_ok) ==
  LET start == [raised |-> ~app_found, delivered |-> {}, sent_emails |-> <<>>,
                failed_emails |-> <<>>, records |-> <<>>]
      loop == IF app_found THEN SendLoop(references, mail, insert, 1, start)
              ELSE start
      raised == loop.raised \/ ~update_ok
  IN [raised |-> raised,
      status_code |-> IF raised THEN 500 ELSE 200,
      total_sent |-> IF raised THEN 0 ELSE Len(loop.sent_emails),
      total_failed |-> IF raised THEN 0 ELSE Len(loop.failed_emails),
      delivered |-> loop.delivered,
      records |-> loop.records,
      app_status |-> IF raised THEN "unchanged" ELSE "reference_requests_sent"]

CallSendReferenceRequests ==
  /\ m_fn = "none"
  /\ \E app_found \in BOOLEAN, references \in SeqsUpTo(SubmittedReferences, MaxRefs),
        mail \in MailAnswers, insert \in InsertAnswers, update_ok \in BOOLEAN :
       /\ m_in' = [app_found |-> app_found, references |-> references,
                   mail |-> mail, insert |-> insert, update_ok |-> update_ok]
       /\ m_out' = SendReferenceRequests(app_found, references, mail, insert, update_ok)
  /\ m_fn' = "send_reference_requests"
  /\ UNCHANGED <<runVars, parseVars, pairVars, graphVars>>

NextMain ==
  \/ CallSendReferenceRequests
  \/ CallParseReferenceData
  \/ CallValidateExtractedData
  \/ CallParseFileContent
  \/ CallExtractTextFromFile
  \/ CallProcessResume

SpecMain == InitMain /\ [][NextMain]_vars

(* ------------------------------- claims ------------------------------- *)

StatusOrder ==
  <<"initialized", "downloaded", "parsed", "applicant_extracted",
    "references_extracted", "vectorstore_built", "questions_fetched", "completed">>

Rank(status) == CHOOSE i \in 1..Len(StatusOrder) : StatusOrder[i] = status

\* the labels of outcome that say a stage's work failed
StageFailures ==
  {"fetch_failed", "no_text", "exception", "llm_raised", "no_span", "bad_json"}

\* the labels that say the LLM invocation of a stage failed
LlmFailures == {"llm_raised", "no_span", "bad_json"}

\* the status a stage sets when it succeeds
SuccessStatus(stage) ==
  StatusOrder[(CHOOSE i \in 1..Len(Stages) : Stages[i] = stage) + 1]

\* C1: in every step of a run, status stays as it is or, from a value that is
\* neither error nor completed, moves to the next value of the fixed order or
\* to error; it never moves back, never skips, never leaves error or completed.
C1_StatusForwardOnly ==
  [][\/ state'.status = state.status
     \/ /\ state.status \notin {"error", "completed"}
        /\ \/ state'.status = "error"
           \/ Rank(state'.status) = Rank(state.status) + 1]_vars

\* a run went through every stage in order and returned completed
C1_Witness ==
  /\ pc = "done"
  /\ state.status = "completed"
  /\ result.status = "completed"
  /\ \A s \in StageSet : outcome[s] = "ok"

\* C2: in a run whose download stage succeeded, status is never error and the
\* returned status is never error, whatever fails later.
C2_ErrorOnlyFromDownload ==
  outcome["download_resume"] = "ok" =>
    /\ state.status # "error"
    /\ (pc = "done" => result.status # "error")

\* the stage's documented default output is what the state holds
DefaultStored(stage) ==
  CASE stage = "extract_applicant" -> state.applicant_info = DefaultApplicantInfo
    [] stage = "extract_references" -> state.references = <<>>
    [] stage = "build_vectorstore" -> state.vectorstore_path = <<>>
    [] stage = "fetch_questions" -> state.questions = List(<<>>)
    [] OTHER -> TRUE

\* C3: when the work of parse, extract_applicant, extract_references,
\* build_vectorstore or fetch_questions fails, then right after the stage the
\* state holds the stage's default output and the stage's own success status,
\* and the next stage is not skipped.
C3_LaterStagesAbsorbFailures ==
  \A stage \in StageSet \ {"download_resume", "finalize"} :
    outcome[stage] \in StageFailures =>
      /\ pc = NextNode(stage) => (state.status = SuccessStatus(stage)
                                   /\ DefaultStored(stage))
      /\ outcome[NextNode(stage)] # "skipped"

\* C4: after a failed download, status is error and error_message is not
\* empty, no later stage changes the state, nothing but the fetch took place,
\* and the result has references = [], questions = [], vectorstore_path = "".
C4_FailedDownloadState ==
  outcome["download_resume"] \in {"fetch_failed", "no_text"} =>
    /\ state.status = "error"
    /\ state.error_message # ""
    /\ state.references = <<>>
    /\ state.questions = List(<<>>)
    /\ state.vectorstore_path = <<>>
    /\ log = <<"fetch">>
    /\ pc = "done" =>
         /\ result.status = "error"
         /\ result.error_message # ""
         /\ result.references = <<>>
         /\ result.questions = List(<<>>)
         /\ result.vectorstore_path = <<>>

C4_DownloadFailureShortCircuits ==
  /\ []C4_FailedDownloadState
  /\ [][outcome["download_resume"] \in {"fetch_failed", "no_text"} =>
          state' = state]_vars

\* a run returned after its document held no text, every later stage skipped
C4_Witness ==
  /\ pc = "done"
  /\ outcome["download_resume"] = "no_text"
  /\ outcome["finalize"] = "skipped"
  /\ result.status = "error"
  /\ result.error_message = state.error_message

\* C5: a run whose fetch succeeded and whose reference-extraction LLM
\* invocation failed returns references = [], a status later than downloaded
\* and other than error, and an empty error_message.
C5_LlmFailureIsNotAnError ==
  (/\ pc = "done"
   /\ outcome["download_resume"] = "ok"
   /\ outcome["extract_references"] \in LlmFailures) =>
    /\ result.references = <<>>
    /\ result.status \notin {"initialized", "downloaded", "error"}
    /\ result.error_message = ""

\* C6: the questions (and references) of every returned result are sequences.
C6_ResultSequences ==
  pc = "done" =>
    /\ result.questions.t = "list"
    /\ result.references \in Seq([RefKeys -> [t : {"str", "null", "list"},
                                              s : STRING, l : Seq(STRING)]])

\* C7: in every returned result applicant_info carries all six fields, none
\* absent or null, key_skills a sequence and the others strings.
C7_ApplicantInfoComplete ==
  pc = "done" =>
    \A f \in AppFields :
      result.applicant_info[f].t = (IF f = "key_skills" THEN "list" ELSE "str")

\* C8: when the model output holds no bracket span or the span is not JSON,
\* _extract_applicant_info_direct and _parse_applicant_info return the default
\* applicant info and _extract_references_direct returns the empty list.
C8_ParseFailureDefaults ==
  /\ (/\ p_fn \in {"_extract_applicant_info_direct", "_parse_applicant_info"}
      /\ SpanFault(p_in, "{", "}") # "ok") => p_app = DefaultApplicantInfo
  /\ (/\ p_fn = "_extract_references_direct"
      /\ SpanFault(p_in, "[", "]") # "ok") => p_refs = <<>>

\* a completion that is a JSON array of objects and string scalars, with at
\* most prose before and after it
IsFlatArray(content) ==
  \E i, j \in 1..Len(content) :
    /\ i < j
    /\ content[i] = "["
    /\ content[j] = "]"
    /\ \A k \in 1..Len(content) :
         IF k < i \/ k > j THEN content[k] = "w"
         ELSE (k \in (i + 1)..(j - 1) => content[k] \in ObjTokens \cup {"s"})

IsElement(tok) == tok \in ObjTokens \cup {"s"}

\* the candidate is an object whose name is a non-empty string
HasName(tok) ==
  /\ tok \in ObjTokens
  /\ ObjOf(tok)["name"].t = "str"
  /\ ObjOf(tok)["name"].s # ""

\* C9: the list reference extraction returns for a JSON array of candidates
\* holds, in the candidates' order, one reference for each candidate object
\* whose name is a non-empty string, carrying that name, and nothing else;
\* and every reference it ever returns has a non-empty name.
C9_ReferencesAreNamedCandidates ==
  p_fn \in {"_extract_references_direct", "_parse_references"} =>
    /\ \A i \in 1..Len(p_refs) :
         p_refs[i]["name"].t = "str" /\ p_refs[i]["name"].s # ""
    /\ (~p_in.raised /\ IsFlatArray(p_in.content)) =>
         LET kept == SelectSeq(SelectSeq(p_in.content, IsElement), HasName) IN
         /\ Len(p_refs) = Len(kept)
         /\ \A i \in 1..Len(kept) : p_refs[i]["name"] = ObjOf(kept[i])["name"]

\* a nameless candidate was dropped and the named one after it returned
C9_Witness ==
  /\ p_fn = "_extract_references_direct"
  /\ p_in.content = <<"[", "oNullName", "oBob", "]">>
  /\ Len(p_refs) = 1
  /\ p_refs[1]["name"] = Str("Bob Roy")

\* C10: when text extraction from the fetched bytes failed, the download stage
\* ends with status = error and a non-empty error_message, and resume_text
\* never holds what the extractor returned.
C10_ExtractionFailureIsAcquisitionFailure ==
  (pc # "download_resume" /\ extraction = "failed") =>
    /\ state.status = "error"
    /\ state.error_message # ""
    /\ state.resume_text \notin ExtractorMessages

(* ---- claims on the reference string parser and on the validation ----- *)

ParserCalled == m_fn = "parse_reference_data"
ParsedText == ParserCalled /\ m_in.c.kind = "str"
ValidationCalled == m_fn \in {"validate_extracted_data", "debug_workflow_test"}
SummaryReturned == ValidationCalled /\ ~m_out.raised /\ ~m_out.error

\* a text made of spaces and of copies of one separator only
OnlyOneSeparator(text) ==
  \E sep \in SeparatorSet : \A i \in 1..Len(text) : text[i] \in {sep, " "}

\* a text without separators whose every word holds an '@'
EveryWordHasAt(text) ==
  /\ ~HasAny(text, SeparatorSet)
  /\ \A i \in 1..Len(WordsOf(text)) : HasAny(WordsOf(text)[i], {"@@@"})

\* C14: for every input string parse_reference_data returns a record with the
\* five fields name, email, phone_number, company, relationship whose name is
\* never empty; when the parsed name would be empty (blank input, input made
\* only of separators, a name whose every token holds '@') the name is the
\* sentinel "Unknown Reference"; email and phone_number may be empty.
C14_NameNeverEmpty ==
  ParsedText =>
    /\ ~m_out.raised
    /\ DOMAIN m_out.rec = RefRecordKeys
    /\ m_out.rec.name # <<>>
    /\ Strip(m_out.rec.name) = m_out.rec.name
    /\ (m_in.fail = "none"
          /\ \/ Strip(m_in.c.text) = <<>>
             \/ OnlyOneSeparator(m_in.c.text)
             \/ EveryWordHasAt(m_in.c.text))
         => m_out.rec.name = UnknownReference

\* C15: parse_reference_data never raises: if a step inside it fails it
\* returns a record whose name is the first 100 characters of the original
\* input ("Unknown Reference" when the input is empty) and whose other four
\* fields are empty strings.
C15_BestEffortOnFailure ==
  ParserCalled =>
    /\ ~m_out.raised
    /\ (ParsedText /\ m_in.fail # "none")
         => m_out.rec = BestEffortRecord(m_in.c.text)

\* C16: a line of the form name, company, email, phone yields name = first
\* segment, company = second segment, email, phone_number, and an empty
\* relationship; a further segment holding a relationship keyword becomes
\* relationship and leaves the other four fields as they are.
C16_CommaSeparatedForm ==
  (ParsedText /\ m_in.fail = "none") =>
    \A n \in NameSegments, c \in CompanySegments, e \in EmailLexemes,
       p \in PhoneLexemes :
      /\ m_in.c.text = FormLine(n, c, e, p)
           => m_out.rec = [name |-> n, company |-> c, email |-> <<e>>,
                           phone_number |-> <<p>>, relationship |-> <<>>]
      /\ \A r \in RelationshipSegments :
           m_in.c.text = FormLineWithRelationship(n, c, e, p, r)
             => m_out.rec = [name |-> n, company |-> c, email |-> <<e>>,
                             phone_number |-> <<p>>, relationship |-> r]

\* C17: after every call of validate_extracted_data that returns a summary,
\* validation_summary.total_references = len(validated_references).
C17_TotalIsLength ==
  SummaryReturned =>
    m_out.validation_summary.total_references = Len(m_out.validated_references)

C17_Witness ==
  /\ SummaryReturned
  /\ Len(m_in.references) = 2
  /\ Len(m_out.validated_references) = 1
  /\ m_out.validation_summary.total_references = 1

\* C18: with_email and with_phone count the validated entries with a
\* non-empty email, phone_number; missing_info = total_references minus the
\* entries with an email or a phone, so 0 <= missing_info <= total; an empty
\* input list yields validated_references = [] and four counters of 0.
C18_SummaryCounts ==
  SummaryReturned =>
    LET valid == m_out.validated_references
        summary == m_out.validation_summary
        Indexes(Test(_)) == {i \in 1..Len(valid) : Test(valid[i])}
    IN /\ summary.with_email = Cardinality(Indexes(LAMBDA r : r.email # <<>>))
       /\ summary.with_phone = Cardinality(Indexes(LAMBDA r : r.phone_number # <<>>))
       /\ summary.missing_info =
            summary.total_references
              - Cardinality(Indexes(LAMBDA r : r.email # <<>> \/ r.phone_number # <<>>))
       /\ 0 <= summary.missing_info
       /\ summary.missing_info <= summary.total_references
       /\ m_in.references = <<>> =>
            /\ valid = <<>>
            /\ summary = [total_references |-> 0, with_email |-> 0,
                          with_phone |-> 0, missing_info |-> 0]

C18_Witness ==
  /\ SummaryReturned
  /\ Len(m_out.validated_references) = 2
  /\ m_out.validation_summary =
       [total_references |-> 2, with_email |-> 1, with_phone |-> 1,
        missing_info |-> 1]

\* a candidate the loop hands to the parser: not blank
NonBlank(c) == CandidateTruthy(c) /\ Strip(c.text) # <<>>

\* the records the parser returns for the non-blank lines of the input, in
\* the order of the lines
RECURSIVE ParsedLines(_, _, _, _)
ParsedLines(references, i, fail_at, fail) ==
  IF i > Len(references) THEN <<>>
  ELSE (IF NonBlank(references[i])
        THEN <<ParseReferenceData(references[i],
                                  IF i = fail_at THEN fail ELSE "none").rec>>
        ELSE <<>>)
       \o ParsedLines(references, i + 1, fail_at, fail)

\* C19: validated_references never holds an entry whose name is empty or
\* "Unknown Reference": blank lines are skipped, every line whose parsed name
\* is the sentinel (such as "@@@") is discarded, and the surviving entries
\* keep the order of their input lines.
C19_OnlyNamedReferences ==
  SummaryReturned =>
    LET valid == m_out.validated_references
        parsed == ParsedLines(m_in.references, 1, m_in.fail_at, m_in.fail)
    IN /\ \A i \in 1..Len(valid) :
            valid[i].name # <<>> /\ valid[i].name # UnknownReference
       /\ valid = SelectSeq(parsed, LAMBDA r : r.name # UnknownReference)

C19_Witness ==
  /\ SummaryReturned
  /\ m_in.fail = "none"
  /\ m_in.references = <<TextCandidate(<<"@@@">>), TextCandidate(<<"Jane">>)>>
  /\ Len(m_out.validated_references) = 1
  /\ m_out.validated_references[1].name = <<"Jane">>

\* C20: validate_extracted_data never raises: for every list of candidates,
\* free-text lines or the structured references of a run_workflow result, it
\* returns a result carrying validated_references and validation_summary.
C20_ValidationNeverRaises ==
  (ValidationCalled /\ ~m_in.empty) => ~m_out.raised /\ ~m_out.error

(* ------------------- claims on the text extraction -------------------- *)

ExtractorCalled == m_fn \in {"parse_file_content", "extract_text_from_file"}

\* C11: text extraction selects its method by the filename suffix: .pdf gives
\* the per-page text joined in page order, .docx and .doc give paragraph text
\* followed by table-cell text, every other suffix gives the bytes decoded as
\* UTF-8 with invalid sequences dropped; for a suffix other than
\* .pdf/.docx/.doc the extractor never fails and its result is the decoded
\* document content.
C11_ExtractionBySuffix ==
  ExtractorCalled =>
    /\ (m_in.ext = ".pdf" /\ m_in.doc.readable /\ m_in.io = "ok")
         => Strip(m_out) = Strip(JoinLines(m_in.doc.segs))
    /\ (m_in.ext \in {".docx", ".doc"} /\ m_in.doc.readable /\ m_in.io = "ok")
         => Strip(m_out) = Strip(JoinLines(m_in.doc.segs) \o JoinRows(m_in.doc.rows))
    /\ m_in.ext \notin {".pdf", ".docx", ".doc"} => m_out = Decode(m_in.bytes)

(* ------------------ claims on the merge of process_resume ------------- *)

IdentityFields == {"name", "email", "phone"}

ProcessReturned == m_fn = "process_resume" /\ ~m_out.raised

\* the value of the AI extractor for an identity field
AiValue(key) ==
  IF "applicant_info" \in DOMAIN m_in.ai_result
  THEN m_in.ai_result["applicant_info"][ApplicantKey(key)]
  ELSE Absent

IsBlank(v) == v.t \in {"absent", "null"} \/ v = Str("")

IsUnknown(v) == v = Str("Unknown") \/ v = Text(<<"Unknown">>)

\* C12: for each identity field the merged value of process_resume is the AI
\* extractor's value whenever that is non-empty and not the sentinel, and the
\* fallback extractor's value when the AI value is blank; the fallback never
\* overrides a non-empty AI value.
C12_AiValueTakesPrecedence ==
  ProcessReturned =>
    \A key \in IdentityFields :
      /\ (AiValue(key).t = "str" /\ ~IsBlank(AiValue(key)) /\ ~IsUnknown(AiValue(key)))
           => m_out.final[key] = AiValue(key)
      /\ IsBlank(AiValue(key)) => m_out.final[key] = Text(m_out.fallback[key])

\* C13: an AI value equal to the sentinel "Unknown" is treated as missing:
\* the merged field is the fallback extractor's value, the empty string when
\* the fallback has none; a merged identity field is never "Unknown" while
\* the fallback found a value.
C13_SentinelIsMissing ==
  ProcessReturned =>
    \A key \in IdentityFields :
      /\ IsUnknown(AiValue(key)) =>
           /\ m_out.final[key] = Text(m_out.fallback[key])
           /\ m_out.fallback[key] = <<>> => ~NonEmpty(m_out.final[key])
      /\ m_out.fallback[key] # <<>> => ~IsUnknown(m_out.final[key])

C13_Witness ==
  /\ ProcessReturned
  /\ AiValue("name") = Str("Unknown")
  /\ AiValue("phone") = Str("Unknown")
  /\ m_out.fallback.name = <<"John", " ", "John">>
  /\ m_out.fallback.phone = <<>>
  /\ m_out.final.name = Text(<<"John", " ", "John">>)
  /\ m_out.final.phone = Text(<<>>)

\* the text process_resume scans with the fallback patterns
ScannedText == FallbackText(m_in.doc, m_in.bytes, m_in.ext)

OnlyYearRangeDigits(text) ==
  /\ \E i \in 1..Len(text) : text[i] \in YearRanges
  /\ \A i \in 1..Len(text) : text[i] \notin ResumePhones

C28_PostCleanApplied ==
  (ParsedText /\ m_in.fail = "none") =>
    /\ ~HasAny(m_out.rec.name, AtLexemes)
    /\ ~HasAny(m_out.rec.company, AtLexemes \cup DigitLexemes)

RunReturned == pc \in {"done", "validated"}

\* C29: in every result run_workflow returns, error_message is non-empty
\* exactly when status is error: a completed result has error_message = "",
\* and no result has status error with an empty error_message.
C29_ErrorMessageIffError ==
  RunReturned =>
    /\ (result.status = "error") <=> (result.error_message # "")
    /\ result.status = "completed" => result.error_message = ""

C29_Witness ==
  /\ pc = "done"
  /\ outcome["parse_resume"] = "exception"
  /\ result.status = "error"
  /\ result.error_message = "Failed to parse resume: ..."

\* the generic list the specification names for each role of the model
ExpectedCategory(role) ==
  CASE role = "Software Engineer" -> "software"
    [] role = "Marketing Manager" -> "marketing"
    [] role = "Team Lead" -> "management"
    [] OTHER -> "default"

\* C25: the question lookup never fails the run: right after the stage has
\* run, status = questions_fetched; when no row matched, the row held no
\* questions, or the lookup failed, the questions are the non-empty generic
\* list of the role's category (software, marketing, management, tested in
\* that order, otherwise default).
C25_LookupFallsBackToGeneric ==
  /\ (pc = "finalize" /\ outcome["fetch_questions"] # "skipped")
       => state.status = "questions_fetched"
  /\ outcome["fetch_questions"] \in {"lookup_failed", "no_row", "null_cell"}
       => /\ state.questions = GenericQuestions(ExpectedCategory(state.role))
          /\ Len(state.questions.l) > 0

C25_Witness ==
  /\ pc = "finalize"
  /\ state.role = "Marketing Manager"
  /\ outcome["fetch_questions"] = "lookup_failed"
  /\ state.questions = GenericQuestions("marketing")
  /\ state.status = "questions_fetched"

\* the invocations of the LLM a run has made, in order
LlmInvocations ==
  SelectSeq(log, LAMBDA e : e \in {"llm_applicant", "llm_references"})

\* C26: every run whose download succeeded and whose graph ran to its end
\* has invoked the LLM exactly twice, for the applicant and then for the
\* references, and no invocation is repeated.
C26_OneInvocationPerEntity ==
  (RunReturned /\ outcome["download_resume"] = "ok" /\ result = WorkflowResult(state))
    => LlmInvocations = <<"llm_applicant", "llm_references">>

\* C24: every run eventually returns a result, also when an external party
\* never answers: a fetch that never responds ends in a result with status
\* error, an LLM invocation that never responds ends in a returned result.
C24_EveryRunReturns ==
  /\ <>RunReturned
  /\ (pc = "awaiting_fetch") ~> (RunReturned /\ result.status = "error")
  /\ (pc = "awaiting_llm") ~> RunReturned

SendCalled == m_fn = "send_reference_requests"

\* the rows of reference_requests written for the i-th submitted reference
RecordsOf(i) ==
  {k \in 1..Len(m_out.records) :
     m_out.records[k].ref = i /\ m_out.records[k].status = "sent"}

\* C30: after send_reference_requests, whether it answered normally or with
\* an error, every reference whose email was sent has exactly one
\* reference_requests row with status 'sent', a reference whose email was not
\* sent has none, and in a normal response total_sent + total_failed is the
\* number of submitted references with a non-empty email.
C30_OneRecordPerSentEmail ==
  SendCalled =>
    /\ \A i \in 1..Len(m_in.references) :
         /\ i \in m_out.delivered => Cardinality(RecordsOf(i)) = 1
         /\ i \notin m_out.delivered => RecordsOf(i) = {}
    /\ ~m_out.raised =>
         m_out.total_sent + m_out.total_failed =
           Cardinality({i \in 1..Len(m_in.references) : m_in.references[i].email # ""})

\* the state a run reaches alone: its nodes, one after the other, on the
\* answers it was given
RECURSIVE Replay(_, _, _)
Replay(st, i, answers) ==
  IF i > Len(answers) THEN st
  ELSE Replay(ApplyNode(Stages[i], st, answers[i]), i + 1, answers)

AloneResult(run) ==
  WorkflowResult(Replay(InitialState(run.inputs[1], run.inputs[2], run.inputs[3]),
                        1, run.answers))

BuiltPath(run) == run.state.vectorstore_path

\* C22: two runs that have built their vectorstore have different
\* vectorstore_path values, whatever their roles, organizations and timing.
C22_DistinctVectorstorePaths ==
  \A r1, r2 \in RunIds :
    (r1 # r2 /\ BuiltPath(runs[r1]) # <<>> /\ BuiltPath(runs[r2]) # <<>>)
      => BuiltPath(runs[r1]) # BuiltPath(runs[r2])

SendNodeWrote ==
  \/ g_db.reference_requests # ""
  \/ g_db.emails > 0
  \/ g_db.application = "references_sent"

\* C27: reference requests are created, referee emails issued and the
\* application set to references_sent only in a run whose approval gate found
\* the question review approved; in any other run the last node writes
\* nothing.
C27_GateHoldsBackSending ==
  SendNodeWrote => g_state.approval_status = "approved"

====
